---- MODULE Spec2Model ----
(***************************************************************************)
(* State-machine model of the Home Assistant dashboard backend:            *)
(* backend/src/mcp-client.js (MCPClient: SSE transport, request            *)
(* correlation, reconnection and health monitoring).                       *)
(*                                                                         *)
(* Node runs every handler to completion, and the continuation of an       *)
(* awaited promise runs as a microtask before any other timer or I/O       *)
(* event.  One action therefore models one handler together with the       *)
(* continuations it wakes up (a response line that resolves the            *)
(* `initialize` request also runs the next step of initializeMCPSession).  *)
(*                                                                         *)
(* Time is kept as the order of the timers: a pending timer fires only     *)
(* after every timer that was set before it with a duration that is not    *)
(* longer.  lastActivity is kept as the class of Date.now() - lastActivity *)
(* ("fresh": at most 60000 ms, "stale": more than 60000 ms); it turns      *)
(* stale like a 60 s timer set at the last activity.  A 'data' event       *)
(* carries one complete line.                                              *)
(***************************************************************************)
EXTENDS Integers, Sequences, FiniteSets, TLC

\* ---------------------------------------------------------------- bounds
MaxRequestId == 4     \* request ids allocated in one run
MaxStreams == 2       \* connect attempts / SSE streams alive at once
MaxTimers == 2        \* reconnect and cooldown timeouts pending at once
MaxRetries == 1       \* consecutive failed attempts followed in SpecConn, SpecIds
MaxConnIds == 2       \* request ids allocated in SpecConn, SpecIds
MaxNow == 2           \* readings of the clock that differ
MaxPolls == 2         \* failed poll cycles counted
MaxLines == 4         \* lines of a live context text

\* ------------------------------------------------------ program constants
maxReconnectAttempts == 10
reconnectDelay == 1000
maxReconnectDelay == 30000
cooldownDelay == 300000

VARIABLES
  connected,            \* this.connected
  httpClient,           \* this.httpClient present (axios instance)
  mcpEndpoint,          \* this.mcpEndpoint: NoEndpoint, a stream's path, or JsonEndpoint
  currentEventType,     \* this.currentEventType
  requestId,            \* this.requestId
  pendingRequests,      \* keys of this.pendingRequests
  reconnectAttempts,    \* this.reconnectAttempts
  isReconnecting,       \* this.isReconnecting
  reconnectTimer,       \* this.reconnectTimer: 0 or a timeout handle
  healthCheckInterval,  \* this.healthCheckInterval is set (interval running)
  connectionRequest,    \* this.connectionRequest: 0 or the request of an attempt
  lastActivity,         \* age class of this.lastActivity
  timers,               \* timeouts created by scheduleReconnect, by handle
  timerQueue,           \* the pending timers in the order in which they were set
  remaining,            \* per timer: seconds until it is due when set (-1: not pending), counted down by Tick
  reqTimers,            \* ids whose 10 s request timeout has not fired yet
  posts,                \* ids whose HTTP POST is still in flight
  att,                  \* connect attempts (connectToMCPServer calls) and their streams
  outcome,              \* per id: how the promise returned by sendMCPRequest stands
  commandResult,        \* per id: what the command wrapper that sent it returned
  noRequestResult,      \* what the last command wrapper call that sent no request returned
  deliveredBy,          \* per id: the id carried by the response line that settled it
  lateReply,            \* a response line arrived for an id that had already timed out
  lastDelay,            \* delay of the backoff retry scheduled last since the last success
  lost,                 \* the client became not connected and no attempt was started since
  initCalled,           \* initialize() has been called
  cleanedUp,            \* cleanup() has been called
  server,               \* server.js initialize(): the attempt it awaits, how the await ended
  cache,                \* the DeviceCache singleton: deviceCache, lastUpdate, counters, flag,
                        \* what refreshDeviceCache returned and the list it filtered last
  service,              \* the DeviceService singleton: lastKnownState, its last return value
  fetch,                \* per id: the caller of getLiveContext awaiting it, and how it went on
  now,                  \* Date.now()
  call                  \* a method called on its own: its name, argument and return value

processVars == <<connected, httpClient, mcpEndpoint, currentEventType, requestId,
          pendingRequests, reconnectAttempts, isReconnecting, reconnectTimer,
          healthCheckInterval, connectionRequest, lastActivity, timers,
          timerQueue, remaining, reqTimers, posts, att, outcome, commandResult,
          noRequestResult, deliveredBy, lateReply, lastDelay,
          lost, initCalled, cleanedUp, server, cache, service, fetch, now>>

vars == <<processVars, call>>

\* ---------------------------------------------------------------- values
NoEndpoint == 0
JsonEndpoint == 0 - 1          \* a JSON data line captured as the endpoint
Streams == 1..MaxStreams
Handles == 1..MaxTimers
Ids == 1..MaxRequestId

NoTimer == [kind |-> "none", delay |-> 0, attempt |-> 0]
FreeAtt == [phase |-> "free", stream |-> "none", promise |-> "none",
            rid |-> 0, announced |-> FALSE]

\* entities of Home Assistant that pass the dashboard filter, their fields
Entities == {"light.kitchen", "lock.front"}
States == {"on", "off"}
Attributes == {"dim", "bright"}

\* an id that deviceCache.get() does not find, an entity not in the list
NoEntry == [state |-> "absent", attributes |-> "", lastChanged |-> 0, lastSeen |-> 0]
Missing == [state |-> "absent", attributes |-> ""]

\* the content of a tools/call response: with or without a result, and the
\* filtered entity list parsed from the result
NoReply == [result |-> FALSE, entities |-> [e \in Entities |-> Missing]]
Replies ==
  {NoReply} \cup
  [result : {TRUE},
   entities : [Entities -> {Missing} \cup [state : States, attributes : Attributes]]]

Min(a, b) == IF a <= b THEN a ELSE b

RECURSIVE Pow2(_)
Pow2(n) == IF n <= 0 THEN 1 ELSE 2 * Pow2(n - 1)

\* ------------------------------------------------------------- timers
graceDelay == 2000            \* setTimeout(..., 2000) in the response callback
requestTimeout == 10000       \* setTimeout(..., 10000) in sendMCPRequest
healthCheckPeriod == 30000    \* setInterval(..., 30000)
staleAfter == 60000           \* timeSinceLastActivity > 60000

Timer(k, key) == [k |-> k, key |-> key]
ActivityMark == Timer("activity", 0)
HealthTimer == Timer("health", 0)
\* not a timer of the program: 61 s measured from the first endpoint announcement
SilenceClock == Timer("clock", 0)

TimerIds ==
  {Timer("grace", a) : a \in Streams} \cup {Timer("req", id) : id \in Ids}
    \cup {Timer("retry", h) : h \in Handles}
    \cup {ActivityMark, HealthTimer, SilenceClock}

Remove(q, e) == SelectSeq(q, LAMBDA x : x # e)

Duration(s, e) ==
  CASE e.k = "grace" -> graceDelay
    [] e.k = "req" -> requestTimeout
    [] e.k = "retry" -> s.timers[e.key].delay
    [] e.k = "health" -> healthCheckPeriod
    [] e.k = "activity" -> staleAfter + 1
    [] e.k = "clock" -> 61000

\* a duration in whole seconds, rounded up
Seconds(ms) == (ms + 999) \div 1000

\* setTimeout / setInterval re-arm: the timer goes to the end of the order
Arm(s, e) ==
  [s EXCEPT !.timerQueue = Append(Remove(@, e), e),
            !.remaining[e] = Seconds(Duration(s, e))]

\* clearTimeout / the timer has fired
Disarm(s, e) == [s EXCEPT !.timerQueue = Remove(@, e), !.remaining[e] = 0 - 1]

\* e is pending and no timer set before it is due earlier
Due(s, e) ==
  \E i \in 1..Len(s.timerQueue) :
    /\ s.timerQueue[i] = e
    /\ \A j \in 1..(i - 1) : Duration(s, s.timerQueue[j]) > Duration(s, e)

\* this.lastActivity = Date.now()
touch(s) == Arm([s EXCEPT !.lastActivity = "fresh"], ActivityMark)

\* The program state as one record, so that a handler is a function on it
\* (sent: the last sendMCPRequest call was accepted; ovf: a bound was hit).
St ==
  [connected |-> connected, httpClient |-> httpClient, mcpEndpoint |-> mcpEndpoint,
   currentEventType |-> currentEventType, requestId |-> requestId,
   pendingRequests |-> pendingRequests, reconnectAttempts |-> reconnectAttempts,
   isReconnecting |-> isReconnecting, reconnectTimer |-> reconnectTimer,
   healthCheckInterval |-> healthCheckInterval,
   connectionRequest |-> connectionRequest, lastActivity |-> lastActivity,
   timers |-> timers, timerQueue |-> timerQueue, remaining |-> remaining,
   reqTimers |-> reqTimers, posts |-> posts, att |-> att,
   outcome |-> outcome, commandResult |-> commandResult,
   noRequestResult |-> noRequestResult, deliveredBy |-> deliveredBy, lateReply |-> lateReply,
   lastDelay |-> lastDelay, lost |-> lost, initCalled |-> initCalled,
   cleanedUp |-> cleanedUp, server |-> server, cache |-> cache,
   service |-> service, fetch |-> fetch, now |-> now,
   reply |-> NoReply, sent |-> FALSE, ovf |-> FALSE]

\* The handler's result becomes the next state; a handler that ran out of
\* the model's bounds (ids, handles, stream slots) is not taken.
Commit(s) ==
  \E r \in {s} :
    /\ ~r.ovf
    /\ connected' = r.connected
    /\ httpClient' = r.httpClient
    /\ mcpEndpoint' = r.mcpEndpoint
    /\ currentEventType' = r.currentEventType
    /\ requestId' = r.requestId
    /\ pendingRequests' = r.pendingRequests
    /\ reconnectAttempts' = r.reconnectAttempts
    /\ isReconnecting' = r.isReconnecting
    /\ reconnectTimer' = r.reconnectTimer
    /\ healthCheckInterval' = r.healthCheckInterval
    /\ connectionRequest' = r.connectionRequest
    /\ lastActivity' = r.lastActivity
    /\ timers' = r.timers
    /\ timerQueue' = r.timerQueue
    /\ remaining' = r.remaining
    /\ reqTimers' = r.reqTimers
    /\ posts' = r.posts
    /\ att' = r.att
    /\ outcome' = r.outcome
    /\ commandResult' = r.commandResult
    /\ noRequestResult' = r.noRequestResult
    /\ deliveredBy' = r.deliveredBy
    /\ lateReply' = r.lateReply
    /\ lastDelay' = r.lastDelay
    /\ lost' = r.lost
    /\ initCalled' = r.initCalled
    /\ cleanedUp' = r.cleanedUp
    /\ server' = r.server
    /\ cache' = r.cache
    /\ service' = r.service
    /\ fetch' = r.fetch
    /\ now' = r.now
    /\ call' = call

\* no method has been called on its own
NoCall == [fn |-> "none", input |-> <<>>, done |-> FALSE,
           result |-> [raised |-> FALSE, devices |-> <<>>]]

\* constructors of MCPClient, DeviceCache and DeviceService
Constructed ==
  /\ connected = FALSE
  /\ httpClient = FALSE
  /\ mcpEndpoint = NoEndpoint
  /\ currentEventType = "null"
  /\ requestId = 1
  /\ pendingRequests = {}
  /\ reconnectAttempts = 0
  /\ isReconnecting = FALSE
  /\ reconnectTimer = 0
  /\ healthCheckInterval = FALSE
  /\ connectionRequest = 0
  /\ lastActivity = "fresh"
  /\ timers = [h \in Handles |-> NoTimer]
  /\ timerQueue = <<ActivityMark>>
  /\ remaining = [e \in TimerIds |->
                    IF e = ActivityMark THEN Seconds(staleAfter + 1) ELSE 0 - 1]
  /\ reqTimers = {}
  /\ posts = {}
  /\ att = [a \in Streams |-> FreeAtt]
  /\ outcome = [i \in Ids |-> "none"]
  /\ commandResult = [i \in Ids |-> "none"]
  /\ noRequestResult = "none"
  /\ deliveredBy = [i \in Ids |-> 0]
  /\ lateReply = FALSE
  /\ lastDelay = 0
  /\ lost = FALSE
  /\ initCalled = FALSE
  /\ cleanedUp = FALSE
  /\ server = [awaiting |-> 0, initResult |-> "none"]
  /\ cache = [deviceCache |-> [e \in Entities |-> NoEntry], lastUpdate |-> 0,
              totalPolls |-> 0, errorCount |-> 0, lastErrorTime |-> 0,
              refreshCyclesStarted |-> FALSE, returned |-> "none",
              filteredEntities |-> NoReply.entities]
  /\ service = [lastKnownState |-> "null", returned |-> "none"]
  /\ fetch = [i \in Ids |-> "none"]
  /\ now = 1

\* the process after construction
Init == Constructed /\ call = NoCall

\* ------------------------------------------------------------ SSE lines
\* A complete line of the stream: blank or unrecognised, an event-type
\* announcement, or a data line (non-JSON text, or a JSON object whose id
\* member is `id`, 0 when it has none, with or without an error member).
Line(k, arg, id, err) == [k |-> k, arg |-> arg, id |-> id, err |-> err]
Lines ==
  {Line("ignored", "", 0, FALSE)}
    \cup {Line("event", t, 0, FALSE) : t \in {"endpoint", "message"}}
    \cup {Line("data", "text", 0, FALSE)}
    \cup {Line("data", "json", i, e) : i \in 0..MaxRequestId, e \in BOOLEAN}

\* ------------------------------------------------- reconnection & health
\* setTimeout(...) whose handle is stored in this.reconnectTimer
setReconnectTimer(s, t) ==
  LET free == {h \in Handles : s.timers[h].kind = "none"} IN
  IF free = {} THEN [s EXCEPT !.ovf = TRUE]
  ELSE LET h == CHOOSE x \in free : \A y \in free : x <= y IN
       Arm([s EXCEPT !.timers[h] = t, !.reconnectTimer = h], Timer("retry", h))

\* mutant of BackoffDelay: exponent off by one
BackoffDelayDoubled(n) == Min(reconnectDelay * Pow2(n), maxReconnectDelay)

BackoffDelay(n) == Min(reconnectDelay * Pow2(n - 1), maxReconnectDelay)

NextAttempt(n) == n + 1

scheduleReconnect(s) ==
  IF s.isReconnecting \/ s.reconnectAttempts >= maxReconnectAttempts
  THEN IF s.reconnectAttempts >= maxReconnectAttempts
       THEN setReconnectTimer(s, [kind |-> "cooldown", delay |-> cooldownDelay,
                                  attempt |-> s.reconnectAttempts])
       ELSE s
  ELSE LET n == NextAttempt(s.reconnectAttempts) IN
       setReconnectTimer([s EXCEPT !.isReconnecting = TRUE,
                                   !.reconnectAttempts = n,
                                   !.lastDelay = BackoffDelay(n)],
                         [kind |-> "backoff", delay |-> BackoffDelay(n),
                          attempt |-> n])

stopHealthCheck(s) ==
  IF s.healthCheckInterval
  THEN Disarm([s EXCEPT !.healthCheckInterval = FALSE], HealthTimer)
  ELSE s

startHealthCheck(s) ==
  Arm([stopHealthCheck(s) EXCEPT !.healthCheckInterval = TRUE], HealthTimer)

\* req.destroy(): the socket is torn down; an 'error' event may follow
destroy(s, a) ==
  IF a # 0 /\ (s.att[a].phase = "req" \/ s.att[a].stream = "open")
  THEN [s EXCEPT !.att[a].stream = "destroyed"]
  ELSE s

cleanup(s) ==
  LET s1 == stopHealthCheck(s)
      s2 == IF s1.reconnectTimer # 0
            THEN [Disarm(s1, Timer("retry", s1.reconnectTimer))
                    EXCEPT !.timers[s1.reconnectTimer] = NoTimer,
                           !.reconnectTimer = 0]
            ELSE s1
      s3 == IF s2.connectionRequest # 0
            THEN [destroy(s2, s2.connectionRequest) EXCEPT !.connectionRequest = 0]
            ELSE s2
  IN [s3 EXCEPT !.cleanedUp = TRUE]

disconnect(s) ==
  [s EXCEPT !.connected = FALSE, !.httpClient = FALSE,
            !.mcpEndpoint = NoEndpoint, !.pendingRequests = {}]

\* The class has two isConnected methods; the later one (line 520) replaces
\* the earlier one (line 296) on the prototype.
isConnectedFirst(s) == s.connected /\ s.httpClient /\ s.mcpEndpoint # NoEndpoint

isConnected(s) == s.connected

\* --------------------------------------------------- connect attempts
\* mutant of connectSettled: success leaves the counter and the watchdog alone
connectSettledNoReset(s, a, ok) ==
  IF s.att[a].promise # "pending" THEN s
  ELSE IF ok
       THEN [s EXCEPT !.att[a].promise = "resolved"]
       ELSE scheduleReconnect([s EXCEPT !.att[a].promise = "rejected",
                                        !.connected = FALSE,
                                        !.lost = TRUE])

\* resolve()/reject() of the promise of connectToMCPServer, followed by the
\* continuation of its caller (initialize() and the reconnect timer callback
\* continue in the same way).
connectSettled(s, a, ok) ==
  IF s.att[a].promise # "pending" THEN s
  ELSE IF ok
       THEN startHealthCheck([s EXCEPT !.att[a].promise = "resolved",
                                       !.reconnectAttempts = 0,
                                       !.lastDelay = 0])
       ELSE scheduleReconnect([s EXCEPT !.att[a].promise = "rejected",
                                        !.connected = FALSE,
                                        !.lost = TRUE])

\* grace-timer callback after initializeMCPSession returned / threw
sessionDone(s, a) ==
  connectSettled([s EXCEPT !.connected = TRUE, !.att[a].phase = "over"], a, TRUE)

sessionFail(s, a) ==
  connectSettled([s EXCEPT !.connected = FALSE, !.att[a].phase = "over"], a, FALSE)

\* ------------------------------------------------------------ correlator
\* mutant of sendMCPRequest: allowDuringInit is not honoured
sendMCPRequestNoBypass(s, allowDuringInit) ==
  IF ~isConnected(s) THEN [s EXCEPT !.sent = FALSE]
  ELSE IF ~s.httpClient \/ s.mcpEndpoint = NoEndpoint THEN [s EXCEPT !.sent = FALSE]
  ELSE IF s.requestId > MaxRequestId THEN [s EXCEPT !.ovf = TRUE]
  ELSE LET id == s.requestId IN
       Arm([s EXCEPT !.requestId = id + 1,
                     !.pendingRequests = @ \cup {id},
                     !.reqTimers = @ \cup {id},
                     !.posts = @ \cup {id},
                     !.outcome[id] = "pending",
                     !.sent = TRUE],
           Timer("req", id))

\* mutant of sendMCPRequest: no timeout is set for the request
sendMCPRequestNoTimeout(s, allowDuringInit) ==
  IF ~allowDuringInit /\ ~isConnected(s) THEN [s EXCEPT !.sent = FALSE]
  ELSE IF ~s.httpClient \/ s.mcpEndpoint = NoEndpoint THEN [s EXCEPT !.sent = FALSE]
  ELSE IF s.requestId > MaxRequestId THEN [s EXCEPT !.ovf = TRUE]
  ELSE LET id == s.requestId IN
       [s EXCEPT !.requestId = id + 1,
                 !.pendingRequests = @ \cup {id},
                 !.posts = @ \cup {id},
                 !.outcome[id] = "pending",
                 !.sent = TRUE]

sendMCPRequest(s, allowDuringInit) ==
  IF ~allowDuringInit /\ ~isConnected(s) THEN [s EXCEPT !.sent = FALSE]
  ELSE IF ~s.httpClient \/ s.mcpEndpoint = NoEndpoint THEN [s EXCEPT !.sent = FALSE]
  ELSE IF s.requestId > MaxRequestId THEN [s EXCEPT !.ovf = TRUE]
  ELSE LET id == s.requestId IN
       Arm([s EXCEPT !.requestId = id + 1,
                     !.pendingRequests = @ \cup {id},
                     !.reqTimers = @ \cup {id},
                     !.posts = @ \cup {id},
                     !.outcome[id] = "pending",
                     !.sent = TRUE],
           Timer("req", id))

\* initializeMCPSession, third step: tools/list (its failure is caught)
sendToolsList(s, a) ==
  LET r == sendMCPRequest(s, TRUE) IN
  IF r.ovf THEN r
  ELSE IF r.sent
       THEN [r EXCEPT !.att[a].phase = "tools", !.att[a].rid = s.requestId]
       ELSE sessionDone(r, a)

\* initializeMCPSession, second step: sendMCPNotification(..., true)
sendInitialized(s, a) ==
  IF ~s.httpClient \/ s.mcpEndpoint = NoEndpoint
  THEN sessionFail(s, a)
  ELSE [s EXCEPT !.att[a].phase = "notif"]

\* initializeMCPSession, first step, called from the grace timer
initializeMCPSession(s, a) ==
  IF s.mcpEndpoint = NoEndpoint THEN sessionFail(s, a)
  ELSE LET r == sendMCPRequest(s, TRUE) IN
       IF r.ovf THEN r
       ELSE IF r.sent
            THEN [r EXCEPT !.att[a].phase = "init", !.att[a].rid = s.requestId]
            ELSE sessionFail(r, a)

\* ------------------------------------------------------- device cache
\* process.env.NODE_ENV === 'test' / options.testMode: not at process start-up
testMode == FALSE

\* mutant of refreshFailed: a failed poll empties the cache
refreshFailedClears(s) ==
  [s EXCEPT !.cache.deviceCache = [e \in Entities |-> NoEntry],
            !.cache.errorCount = @ + 1,
            !.cache.lastErrorTime = s.now,
            !.cache.returned = "cache"]

\* mutant of refreshFailed: a failed poll is counted as a poll as well
refreshFailedCountsPoll(s) ==
  [s EXCEPT !.cache.errorCount = @ + 1,
            !.cache.totalPolls = @ + 1,
            !.cache.lastErrorTime = s.now,
            !.cache.returned = "cache"]

\* catch branch of refreshDeviceCache
refreshFailed(s) ==
  [s EXCEPT !.cache.errorCount = @ + 1,
            !.cache.lastErrorTime = s.now,
            !.cache.returned = "cache"]

\* mutant of cacheEntry: every entity seen counts as changed
cacheEntryAlwaysChanged(existing, entity, t) ==
  [state |-> entity.state, attributes |-> entity.attributes,
   lastChanged |-> t, lastSeen |-> t]

\* the value stored for one filtered entity (change detection)
\* mutant of cacheEntry: a changed entity keeps its old lastSeen
cacheEntryStaleSeen(existing, entity, t) ==
  IF existing = NoEntry \/ existing.state # entity.state
  THEN [state |-> entity.state, attributes |-> entity.attributes,
        lastChanged |-> t,
        lastSeen |-> IF existing = NoEntry THEN t ELSE existing.lastSeen]
  ELSE [existing EXCEPT !.lastSeen = t]

cacheEntry(existing, entity, t) ==
  IF existing = NoEntry \/ existing.state # entity.state
  THEN [state |-> entity.state, attributes |-> entity.attributes,
        lastChanged |-> IF existing # NoEntry /\ existing.state # entity.state
                        THEN t
                        ELSE IF existing # NoEntry /\ existing.lastChanged # 0
                             THEN existing.lastChanged ELSE t,
        lastSeen |-> t]
  ELSE [existing EXCEPT !.lastSeen = t]

\* mutant of refreshContinues: an entity missing from the list is evicted
refreshContinuesEvicts(s, reply) ==
  IF ~reply.result THEN refreshFailed(s)
  ELSE [s EXCEPT !.cache.deviceCache =
                    [e \in Entities |->
                       IF reply.entities[e] = Missing THEN NoEntry
                       ELSE cacheEntry(@[e], reply.entities[e], s.now)],
                 !.cache.filteredEntities = reply.entities,
                 !.cache.totalPolls = @ + 1,
                 !.cache.lastUpdate = s.now,
                 !.cache.returned = "cache"]

\* try branch of refreshDeviceCache after the await: no result throws,
\* otherwise the filtered entities update the cache and the counters
refreshContinues(s, reply) ==
  IF ~reply.result THEN refreshFailed(s)
  ELSE [s EXCEPT !.cache.deviceCache =
                    [e \in Entities |->
                       IF reply.entities[e] = Missing THEN @[e]
                       ELSE cacheEntry(@[e], reply.entities[e], s.now)],
                 !.cache.filteredEntities = reply.entities,
                 !.cache.totalPolls = @ + 1,
                 !.cache.lastUpdate = s.now,
                 !.cache.returned = "cache"]

\* refreshDeviceCache up to the await of getLiveContext (which rethrows what
\* sendMCPRequest throws)
refreshDeviceCache(s) ==
  LET r == sendMCPRequest(s, FALSE) IN
  IF r.ovf THEN r
  ELSE IF r.sent THEN [r EXCEPT !.fetch[s.requestId] = "poll"]
       ELSE refreshFailed(r)

\* startRefreshCycles: the flag, the immediate refresh (the two intervals
\* it sets run as RefreshTimer)
startRefreshCycles(s) ==
  IF s.cache.refreshCyclesStarted \/ testMode THEN s
  ELSE refreshDeviceCache([s EXCEPT !.cache.refreshCyclesStarted = TRUE])

\* ----------------------------------------------------- device service
\* getDashboardState after the direct call: the state is built from the
\* cache and remembered
dashboardBuilt(s) ==
  [s EXCEPT !.service.lastKnownState = "state", !.service.returned = "state"]

\* catch branch of getDashboardState
dashboardFailed(s) ==
  [s EXCEPT !.service.returned =
      IF s.service.lastKnownState # "null" THEN "lastKnown" ELSE "placeholder"]

\* getDashboardState up to its await
getDashboardState(s) ==
  IF ~isConnected(s) THEN dashboardBuilt(s)
  ELSE LET r == sendMCPRequest(s, FALSE) IN
       IF r.ovf THEN r
       ELSE IF r.sent THEN [r EXCEPT !.fetch[s.requestId] = "dashboard"]
            ELSE dashboardFailed(r)

\* the caller of getLiveContext awaiting request id continues
fetchSettled(s, id, how) ==
  CASE s.fetch[id] = "poll" ->
         LET ok == how = "resolved" /\ s.reply.result IN
         refreshContinues([s EXCEPT !.fetch[id] = IF ok THEN "pollOk" ELSE "pollFailed"],
                          IF how = "resolved" THEN s.reply ELSE NoReply)
    [] s.fetch[id] = "dashboard" ->
         IF how = "resolved"
         THEN dashboardBuilt([s EXCEPT !.fetch[id] = "dashboardOk"])
         ELSE dashboardFailed([s EXCEPT !.fetch[id] = "dashboardFailed"])
    [] OTHER -> s

\* mutant of commandReturn: the failure is thrown on, as getLiveContext does
commandReturnRethrow(how) == IF how = "resolved" THEN "success" ELSE "thrown"

\* try/catch of a command wrapper around the awaited request:
\* {success: true, ...} or {success: false, message}
commandReturn(how) == IF how = "resolved" THEN "success" ELSE "failure"

\* mutant of requestSettled: the try/catch around tools/list is missing
requestSettledToolsFail(s, id, how) ==
  LET s1 == fetchSettled([s EXCEPT !.outcome[id] = how,
                                   !.commandResult[id] =
                                      IF @ = "waiting" THEN commandReturn(how) ELSE @],
                         id, how)
      waiting == {a \in Streams : s.att[a].rid = id /\ s.att[a].phase \in {"init", "tools"}}
  IN IF waiting = {} THEN s1
     ELSE LET a == CHOOSE x \in waiting : TRUE IN
          IF how # "resolved" THEN sessionFail(s1, a)
          ELSE IF s.att[a].phase = "tools" THEN sessionDone(s1, a)
          ELSE sendInitialized(s1, a)

\* The promise of request id is settled (how: "resolved", "rejected" by an
\* error response or a failed POST, "timeout"); a session initialization,
\* a command wrapper, a poll or getDashboardState awaiting it continues.
requestSettled(s, id, how) ==
  LET s1 == fetchSettled([s EXCEPT !.outcome[id] = how,
                                   !.commandResult[id] =
                                      IF @ = "waiting" THEN commandReturn(how) ELSE @],
                         id, how)
      waiting == {a \in Streams : s.att[a].rid = id /\ s.att[a].phase \in {"init", "tools"}}
  IN IF waiting = {} THEN s1
     ELSE LET a == CHOOSE x \in waiting : TRUE IN
          IF s.att[a].phase = "tools" THEN sessionDone(s1, a)
          ELSE IF how = "resolved" THEN sendInitialized(s1, a)
          ELSE sessionFail(s1, a)

\* mutant of requestTimedOut: the timeout rejects without looking at the table
requestTimedOutUnchecked(s, id) ==
  requestSettled([s EXCEPT !.pendingRequests = @ \ {id}], id, "timeout")

\* the callback of the 10 s timeout of request id
requestTimedOut(s, id) ==
  IF id \in s.pendingRequests
  THEN requestSettled([s EXCEPT !.pendingRequests = @ \ {id}], id, "timeout")
  ELSE s

\* ------------------------------------------------------ command wrappers
Wrappers ==
  {"turnOn", "turnOff", "setLightBrightness", "setFanSpeed",
   "setClimateTemperature", "controlMediaPlayer", "setVolume"}

\* the action argument of controlMediaPlayer ("stop": one it does not know)
MediaActions == {"play", "pause", "next", "previous", "stop"}

\* the tool a wrapper calls; "" when controlMediaPlayer throws in its switch
commandTool(w, action) ==
  CASE w = "turnOn" -> "HassTurnOn"
    [] w = "turnOff" -> "HassTurnOff"
    [] w = "setLightBrightness" -> "HassLightSet"
    [] w = "setFanSpeed" -> "HassSetVolume"
    [] w = "setClimateTemperature" -> "HassClimateSetTemperature"
    [] w = "setVolume" -> "HassSetVolume"
    [] w = "controlMediaPlayer" ->
         CASE action = "play" -> "HassMediaUnpause"
           [] action = "pause" -> "HassMediaPause"
           [] action = "next" -> "HassMediaNext"
           [] action = "previous" -> "HassMediaPrevious"
           [] OTHER -> ""

\* a command wrapper up to its await: a throw before a request was sent
\* (unknown action, sendMCPRequest refusing) is caught and returned
command(s, w, action) ==
  IF commandTool(w, action) = ""
  THEN [s EXCEPT !.noRequestResult = commandReturn("rejected")]
  ELSE LET r == sendMCPRequest(s, FALSE) IN
       IF r.ovf THEN r
       ELSE IF r.sent
            THEN [r EXCEPT !.commandResult[s.requestId] = "waiting"]
            ELSE [r EXCEPT !.noRequestResult = commandReturn("rejected")]

\* mutants of Lookup: matching by submission order; no has() check
LookupOldest(pending, id) ==
  IF id # 0 /\ pending # {}
  THEN CHOOSE x \in pending : \A y \in pending : x <= y
  ELSE 0

LookupUnchecked(pending, id) == IF id \in Ids THEN id ELSE 0

\* pendingRequests.has(jsonData.id) guarded by the truthiness of the id
Lookup(pending, id) == IF id # 0 /\ id \in pending THEN id ELSE 0

\* handleSSELine for a line delivered by stream a
handleSSELine(s, a, line) ==
  CASE line.k = "ignored" -> s
    [] line.k = "event" -> [s EXCEPT !.currentEventType = line.arg]
    [] line.k = "data" ->
        IF s.currentEventType = "endpoint"
        THEN [s EXCEPT !.mcpEndpoint = IF line.arg = "json" THEN JsonEndpoint ELSE a,
                       !.att[a].announced = TRUE]
        ELSE IF line.arg = "json"
             THEN LET hit == Lookup(s.pendingRequests, line.id) IN
                  IF hit # 0
                  THEN requestSettled([s EXCEPT !.pendingRequests = @ \ {hit},
                                                !.deliveredBy[hit] = line.id],
                                      hit,
                                      IF line.err THEN "rejected" ELSE "resolved")
                  ELSE [s EXCEPT !.lateReply = @ \/ (line.id \in Ids /\ s.outcome[line.id] = "timeout")]
             ELSE s

\* mutant of connectToMCPServer: the id counter restarts with the connection
connectToMCPServerResetIds(s) ==
  LET free == {a \in Streams : s.att[a].phase = "free"} IN
  IF free = {} THEN [s EXCEPT !.ovf = TRUE]
  ELSE LET a == CHOOSE x \in free : \A y \in free : x <= y IN
       [s EXCEPT !.httpClient = TRUE,
                 !.requestId = 1,
                 !.att[a] = [phase |-> "req", stream |-> "none", promise |-> "pending",
                             rid |-> 0, announced |-> FALSE],
                 !.connectionRequest = a,
                 !.lost = FALSE]

\* connectToMCPServer up to req.end(): new axios client, new request
connectToMCPServer(s) ==
  LET free == {a \in Streams : s.att[a].phase = "free"} IN
  IF free = {} THEN [s EXCEPT !.ovf = TRUE]
  ELSE LET a == CHOOSE x \in free : \A y \in free : x <= y IN
       [s EXCEPT !.httpClient = TRUE,
                 !.att[a] = [phase |-> "req", stream |-> "none", promise |-> "pending",
                             rid |-> 0, announced |-> FALSE],
                 !.connectionRequest = a,
                 !.lost = FALSE]

\* An attempt whose callbacks have all run and whose stream can deliver no
\* further event is forgotten (its slot is taken by a later attempt).
Release(s) ==
  [s EXCEPT !.att = [a \in Streams |->
       IF s.att[a].phase = "over" /\ s.att[a].stream \in {"none", "ended", "errored", "closed"}
       THEN FreeAtt ELSE s.att[a]]]

\* server.js initialize(): mcpClient.initialize() has returned (its try
\* completed or its catch called scheduleReconnect), the cache is started
serverContinues(s) ==
  IF s.server.awaiting # 0 /\ s.att[s.server.awaiting].promise # "pending"
  THEN startRefreshCycles(
         [s EXCEPT !.server = [awaiting |-> 0,
                               initResult |-> s.att[s.server.awaiting].promise]])
  ELSE s

\* a callback has run; the continuations waiting on what it settled follow
Done(s) ==
  \E h \in {s} : \E c \in {serverContinues(h)} : Commit(Release(c))

\* ------------------------------------------------- live context parser
\* A string is a sequence of chunks of characters; the words and the marks
\* the parser tells apart (space, colon, quote, dash) are chunks of their
\* own.  A text is the sequence of its lines, '' is the empty sequence.
NamesHeader == <<"-", " ", "names", ":">>
LiveContextHeader == <<"Live Context", ":">>
DomainKey == <<"domain", ":">>
StateKey == <<"state", ":">>
AreasKey == <<"areas", ":">>
unavailable == <<"unavailable">>

\* s.startsWith(p)
startsWith(s, p) == Len(p) <= Len(s) /\ SubSeq(s, 1, Len(p)) = p

\* s.replace(p, '') for a string that starts with p
dropPrefix(s, p) == SubSeq(s, Len(p) + 1, Len(s))

RECURSIVE trimStart(_)
trimStart(s) == IF s # <<>> /\ Head(s) = " " THEN trimStart(Tail(s)) ELSE s

RECURSIVE trimEnd(_)
trimEnd(s) ==
  IF s # <<>> /\ s[Len(s)] = " " THEN trimEnd(SubSeq(s, 1, Len(s) - 1)) ELSE s

\* s.trim()
trim(s) == trimEnd(trimStart(s))

notQuote(c) == c # "'"

\* s.replace(/'/g, '')
stripQuotes(s) == SelectSeq(s, notQuote)

\* s.indexOf(c), counted in chunks
RECURSIVE indexOf(_, _)
indexOf(s, c) ==
  IF s = <<>> THEN 0 - 1
  ELSE IF Head(s) = c THEN 0
  ELSE LET r == indexOf(Tail(s), c) IN IF r < 0 THEN r ELSE r + 1

\* [^']+ at the start of s, greedy
RECURSIVE unquotedRun(_)
unquotedRun(s) ==
  IF s = <<>> \/ Head(s) = "'" THEN <<>>
  ELSE <<Head(s)>> \o unquotedRun(Tail(s))

\* line.match(/- names:\s*'?([^']+)'?/) for a line that starts with the
\* header and holds it once: the captured group, or no match.  When no
\* chunk other than a quote follows the spaces, \s* gives its last space
\* back to the group.
nameMatch(line) ==
  LET rest == dropPrefix(line, NamesHeader)
      r == trimStart(rest)
  IN IF r # <<>> /\ Head(r) # "'"
     THEN [matched |-> TRUE, group |-> unquotedRun(r)]
     ELSE IF Len(r) >= 2 /\ r[2] # "'"
          THEN [matched |-> TRUE, group |-> unquotedRun(Tail(r))]
          ELSE IF Len(rest) > Len(r)
               THEN [matched |-> TRUE, group |-> <<" ">>]
               ELSE [matched |-> FALSE, group |-> <<>>]

\* the object literal assigned to currentDevice
newDevice(name) ==
  [id |-> name, name |-> name, domain |-> <<>>, state |-> <<>>, area |-> <<>>,
   attributes |-> [k \in {} |-> <<>>]]

\* obj[key] = value
setProperty(obj, key, value) ==
  [k \in DOMAIN obj \cup {key} |-> IF k = key THEN value ELSE obj[k]]

\* One pass of the for loop.  st.objects are the device objects created so
\* far, st.devices the array (of references to them), st.currentDevice a
\* reference or 0 for null.
parseLine(st, line) ==
  LET trimmedLine == trim(line)
      cur == st.currentDevice
  IN
  IF trimmedLine = <<>> \/ startsWith(trimmedLine, LiveContextHeader) THEN st
  ELSE IF startsWith(line, NamesHeader)
  THEN LET pushed == IF cur # 0 THEN [st EXCEPT !.devices = Append(@, cur)] ELSE st
           nm == nameMatch(line)
       IN IF nm.matched
          THEN [pushed EXCEPT !.objects = Append(@, newDevice(trim(nm.group))),
                              !.currentDevice = Len(st.objects) + 1]
          ELSE pushed
  ELSE IF cur # 0
  THEN IF startsWith(trimmedLine, DomainKey)
       THEN [st EXCEPT !.objects[cur].domain = trim(dropPrefix(trimmedLine, DomainKey))]
       ELSE IF startsWith(trimmedLine, StateKey)
       THEN [st EXCEPT !.objects[cur].state =
                          stripQuotes(trim(dropPrefix(trimmedLine, StateKey)))]
       ELSE IF startsWith(trimmedLine, AreasKey)
       THEN [st EXCEPT !.objects[cur].area = trim(dropPrefix(trimmedLine, AreasKey))]
       ELSE IF indexOf(trimmedLine, ":") > 0 /\ Head(trimmedLine) # "-"
       THEN LET colonIndex == indexOf(trimmedLine, ":")
                key == trim(SubSeq(trimmedLine, 1, colonIndex))
                value == trim(SubSeq(trimmedLine, colonIndex + 2, Len(trimmedLine)))
            IN IF key # <<>> /\ value # <<>>
               THEN [st EXCEPT !.objects[cur].attributes =
                                  setProperty(@, key, stripQuotes(value))]
               ELSE st
       ELSE st
  ELSE st

RECURSIVE parseLines(_, _)
parseLines(st, lines) ==
  IF lines = <<>> THEN st ELSE parseLines(parseLine(st, Head(lines)), Tail(lines))

keptDevice(device) == device.domain # <<>> /\ device.state # unavailable

\* contextText.split('\n'), the loop, the final push and the filter
parseText(contextText) ==
  LET lines == IF contextText = <<>> THEN << <<>> >> ELSE contextText
      st == parseLines([objects |-> <<>>, devices |-> <<>>, currentDevice |-> 0], lines)
      devices == IF st.currentDevice # 0
                 THEN Append(st.devices, st.currentDevice) ELSE st.devices
  IN SelectSeq([i \in 1..Len(devices) |-> st.objects[devices[i]]], keptDevice)

\* JavaScript values of the envelope.  A string that is JSON text carries
\* the value JSON.parse gives for it.
Null == [t |-> "null"]
Number == [t |-> "number"]
Object == [t |-> "object"]
String(text) == [t |-> "string", text |-> text]
JsonText(value) == [t |-> "json", value |-> value]
Parsed(success, result) == [t |-> "parsed", success |-> success, result |-> result]
Content(text) == [t |-> "content", text |-> text]
Context(result) == [t |-> "context", result |-> result]

\* the characters of a JSON text, read as live context: one line without header
jsonLine == << <<"{}">> >>

Returned(devices) == [raised |-> FALSE, devices |-> devices]
TypeError == [raised |-> TRUE, devices |-> <<>>]

\* from contextText.length on; a value that is no string has no substring()
parseContextText(value) ==
  CASE value.t = "string" -> Returned(parseText(value.text))
    [] value.t = "json" -> Returned(parseText(jsonLine))
    [] OTHER -> TypeError

\* v is truthy
truthy(v) ==
  CASE v.t = "null" -> FALSE
    [] v.t = "string" -> v.text # <<>>
    [] OTHER -> TRUE

parseLiveContext(contextData) ==
  IF contextData.t = "null" \/ ~truthy(contextData.result) THEN Returned(<<>>)
  ELSE LET result == contextData.result IN
       IF result.t = "content" /\ truthy(result.text)
       THEN LET textContent == result.text IN
            IF textContent.t = "json"
            THEN LET parsed == textContent.value IN
                 IF parsed.t = "parsed"
                 THEN IF parsed.success /\ truthy(parsed.result)
                      THEN parseContextText(parsed.result)
                      ELSE Returned(<<>>)
                 ELSE IF parsed.t = "null"
                      THEN parseContextText(textContent)
                      ELSE Returned(<<>>)
            ELSE IF textContent.t = "number" THEN Returned(<<>>)
                 ELSE parseContextText(textContent)
       ELSE IF result.t = "string" THEN parseContextText(result)
            ELSE Returned(<<>>)

\* the lines texts are made of
HeaderKitchen == NamesHeader \o <<" ", "Kitchen", " ", "Light">>
HeaderPorch == NamesHeader \o <<" ", "'", "Porch", "'">>
HeaderNoName == NamesHeader
TextLines ==
  {HeaderKitchen, HeaderPorch, HeaderNoName,
   <<" ", " ">> \o DomainKey \o <<" ", "light">>,
   <<" ", " ">> \o StateKey \o <<" ", "'", "on", "'">>,
   <<" ", " ">> \o StateKey \o <<" ", "'", "unavailable", "'">>,
   <<" ", " ">> \o StateKey \o <<" ", "unavailable">>,
   <<" ", " ">> \o AreasKey \o <<" ", "Kitchen">>,
   <<" ", " ", " ", " ", "brightness", ":", " ", "'", "255", "'">>,
   LiveContextHeader \o <<" ", "overview">>}

RECURSIVE TextsOfLength(_)
TextsOfLength(n) ==
  IF n = 0 THEN {<<>>}
  ELSE {Append(text, line) : text \in TextsOfLength(n - 1), line \in TextLines}

\* the texts of at most n lines
TextsUpTo(n) == UNION {TextsOfLength(k) : k \in 0..n}

\* the text of the test fixtures' first block
SampleText ==
  <<HeaderKitchen,
    <<" ", " ">> \o DomainKey \o <<" ", "light">>,
    <<" ", " ">> \o StateKey \o <<" ", "'", "on", "'">>>>

\* envelopes around a text: the old format, result.content[0].text holding
\* plain text, JSON text (null, success or not, a result of any type), or
\* no string at all
Envelopes ==
  {Null, Context(Null), Context(Number), Context(Object)}
    \cup {Context(Content(v)) :
            v \in {Null, Number, Object, String(SampleText), JsonText(Null),
                   JsonText(Number)}}
    \cup {Context(Content(JsonText(Parsed(s, r)))) :
            s \in BOOLEAN, r \in {Null, Number, Object, String(SampleText)}}

\* what parseLiveContext is called with: texts of at most n lines, envelopes
ContextDataUpTo(n) == {Context(String(text)) : text \in TextsUpTo(n)} \cup Envelopes

\* ---------------------------------------------------------------- actions
\* initialize(): the first connect attempt (server start-up calls it once)
Initialize ==
  /\ ~initCalled
  /\ Done(connectToMCPServer([St EXCEPT !.initCalled = TRUE]))

\* server.js initialize() at process start-up, up to its await
ServerInitialize ==
  /\ ~initCalled
  /\ LET r == connectToMCPServer([St EXCEPT !.initCalled = TRUE]) IN
     Done([r EXCEPT !.server.awaiting = r.connectionRequest])

\* req 'error' before a response arrived (also after req.destroy())
ReqError(a) ==
  /\ att[a].phase = "req"
  /\ Done(connectSettled([St EXCEPT !.connected = FALSE,
                                    !.att[a].phase = "over",
                                    !.att[a].stream = "none"], a, FALSE))

\* response callback, res.statusCode !== 200
ResponseRefused(a) ==
  /\ att[a].phase = "req"
  /\ att[a].stream = "none"
  /\ Done(connectSettled([St EXCEPT !.att[a].phase = "over"], a, FALSE))

\* response callback, status 200: handlers attached, grace timer started
ResponseOk(a) ==
  /\ att[a].phase = "req"
  /\ att[a].stream = "none"
  /\ Done(Arm(touch([St EXCEPT !.att[a].phase = "grace",
                                    !.att[a].stream = "open"]),
              Timer("grace", a)))

\* res 'data' with one complete line
StreamData(a, line) ==
  /\ att[a].stream = "open"
  /\ Done(handleSSELine(touch(St), a, line))

\* res 'end'
StreamEnd(a) ==
  /\ att[a].stream = "open"
  /\ Done(scheduleReconnect([St EXCEPT !.att[a].stream = "ended",
                                       !.connected = FALSE,
                                       !.lost = TRUE]))

\* res 'error' (also after req.destroy() of a request that had a response)
StreamError(a) ==
  /\ att[a].stream \in {"open", "destroyed"}
  /\ att[a].phase # "req"
  /\ Done(connectSettled([St EXCEPT !.att[a].stream = "errored",
                                    !.connected = FALSE,
                                    !.lost = @ \/ att[a].promise = "resolved"],
                         a, FALSE))

\* a destroyed response closes without an 'error' event
StreamClose(a) ==
  /\ att[a].stream = "destroyed"
  /\ att[a].phase # "req"
  /\ Done([St EXCEPT !.att[a].stream = "closed"])

\* the 2 s timer set in the response callback
GraceTimer(a) ==
  /\ att[a].phase = "grace"
  /\ Due(St, Timer("grace", a))
  /\ LET s == Disarm(St, Timer("grace", a)) IN
     Done(IF mcpEndpoint # NoEndpoint
          THEN initializeMCPSession(s, a)
          ELSE sessionFail(s, a))

\* the POST of notifications/initialized completes
NotificationPosted(a, ok) ==
  /\ att[a].phase = "notif"
  /\ Done(IF ok THEN sendToolsList(St, a) ELSE sessionFail(St, a))

\* a caller outside the client that awaits the request itself (getLiveContext)
SendRequest ==
  Done(sendMCPRequest(St, FALSE))

\* a command wrapper is called
Command(w, action) ==
  Done(command(St, w, action))

\* the 500 ms interval set by startRefreshCycles
RefreshTimer ==
  /\ cache.refreshCyclesStarted
  /\ Done(refreshDeviceCache(St))

\* manualRefresh(), up to the await in refreshDeviceCache
ManualRefresh ==
  Done(refreshDeviceCache(St))

\* getDashboardState() is called (the 2 s interval of server.js, a route)
GetDashboardState ==
  Done(getDashboardState(St))

\* the response to a getLiveContext call arrives on stream a
LiveContextReply(a, id, reply) ==
  /\ att[a].stream = "open"
  /\ fetch[id] \in {"poll", "dashboard"}
  /\ Done(handleSSELine([touch(St) EXCEPT !.reply = reply], a,
                        Line("data", "json", id, FALSE)))

\* time passes
ClockAdvances ==
  /\ now < MaxNow
  /\ Done([St EXCEPT !.now = @ + 1])

\* the 10 s timer of request id
RequestTimeout(id) ==
  /\ id \in reqTimers
  /\ Due(St, Timer("req", id))
  /\ LET s == Disarm([St EXCEPT !.reqTimers = @ \ {id}], Timer("req", id)) IN
     Done(requestTimedOut(s, id))

\* the POST of request id completes; .catch() runs when it failed
PostDone(id, ok) ==
  /\ id \in posts
  /\ Done(IF ~ok /\ id \in pendingRequests
          THEN requestSettled([St EXCEPT !.posts = @ \ {id},
                                         !.pendingRequests = @ \ {id}],
                              id, "rejected")
          ELSE [St EXCEPT !.posts = @ \ {id}])

\* reconnect timer callback
BackoffTimer(h) ==
  /\ timers[h].kind = "backoff"
  /\ Due(St, Timer("retry", h))
  /\ Done(connectToMCPServer([Disarm(St, Timer("retry", h))
                                EXCEPT !.timers[h] = NoTimer,
                                       !.isReconnecting = FALSE]))

\* 5 minute timer callback
CooldownTimer(h) ==
  /\ timers[h].kind = "cooldown"
  /\ Due(St, Timer("retry", h))
  /\ Done(scheduleReconnect([Disarm(St, Timer("retry", h))
                               EXCEPT !.timers[h] = NoTimer,
                                      !.reconnectAttempts = 0]))

\* mutant of healthCheck: staleness only marks the client disconnected
healthCheckNoReconnect(s) ==
  IF s.lastActivity = "stale"
  THEN [s EXCEPT !.connected = FALSE, !.lost = TRUE]
  ELSE s

\* body of the setInterval callback of startHealthCheck
healthCheck(s) ==
  IF s.lastActivity = "stale"
  THEN scheduleReconnect([s EXCEPT !.connected = FALSE, !.lost = TRUE])
  ELSE s

\* setInterval callback of startHealthCheck; the interval goes on
HealthCheckTick ==
  /\ healthCheckInterval
  /\ Due(St, HealthTimer)
  /\ Done(healthCheck(Arm(St, HealthTimer)))

\* more than 60 s pass without stream activity
ActivityAges ==
  /\ lastActivity = "fresh"
  /\ Due(St, ActivityMark)
  /\ Done(Disarm([St EXCEPT !.lastActivity = "stale"], ActivityMark))

Cleanup == Done(cleanup(St))

\* One second passes: no pending timer is due, every pending timer comes
\* one second closer.
Tick ==
  /\ \A e \in TimerIds : remaining[e] # 0
  /\ \E e \in TimerIds : remaining[e] > 0
  /\ Done([St EXCEPT !.remaining =
             [e \in TimerIds |-> IF remaining[e] > 0 THEN remaining[e] - 1
                                                     ELSE remaining[e]]])

\* the timer is due by the count of seconds
Expired(e) == remaining[e] = 0

\* res 'data' with a chunk of two lines, "event: endpoint" and its data
\* line, the only thing a silent stream ever sends; the 61 s of silence are
\* counted from the first such chunk.
EndpointChunk(a) ==
  /\ att[a].stream = "open"
  /\ ~att[a].announced
  /\ LET s1 == handleSSELine(touch(St), a, Line("event", "endpoint", 0, FALSE))
         s2 == handleSSELine(s1, a, Line("data", "text", 0, FALSE))
     IN Done(IF remaining[SilenceClock] < 0
             THEN [s2 EXCEPT !.remaining[SilenceClock] = Seconds(Duration(s2, SilenceClock))]
             ELSE s2)

Disconnect == Done(disconnect(St))

Next ==
  \/ Initialize
  \/ \E a \in Streams : ReqError(a)
  \/ \E a \in Streams : ResponseRefused(a)
  \/ \E a \in Streams : ResponseOk(a)
  \/ \E a \in Streams : \E line \in Lines : StreamData(a, line)
  \/ \E a \in Streams : StreamEnd(a)
  \/ \E a \in Streams : StreamError(a)
  \/ \E a \in Streams : StreamClose(a)
  \/ \E a \in Streams : GraceTimer(a)
  \/ \E a \in Streams : \E ok \in BOOLEAN : NotificationPosted(a, ok)
  \/ SendRequest
  \/ \E w \in Wrappers : \E action \in MediaActions : Command(w, action)
  \/ \E id \in Ids : RequestTimeout(id)
  \/ \E id \in Ids : \E ok \in BOOLEAN : PostDone(id, ok)
  \/ \E h \in Handles : BackoffTimer(h)
  \/ \E h \in Handles : CooldownTimer(h)
  \/ HealthCheckTick
  \/ ActivityAges
  \/ Cleanup
  \/ Disconnect

\* parseLiveContext(contextData) is called and returns or raises
ParseLiveContext ==
  /\ call.fn = "parseLiveContext"
  /\ ~call.done
  /\ call' = [call EXCEPT !.done = TRUE, !.result = parseLiveContext(call.input)]
  /\ UNCHANGED processVars

\* ------------------------------------------------------- specifications
\* The whole client: every handler, every event, every line.
Spec == Init /\ [][Next]_vars

\* The server announces the endpoint once per stream, before anything else
\* that it sends as an endpoint event.
ServerSends(a, line) ==
  line.k = "event" /\ line.arg = "endpoint" => ~att[a].announced

\* The correlator on one connection: session initialization, callers'
\* requests, every kind of line, timeouts, failed POSTs, stream termination
\* and disconnect().  Reconnect timers are scheduled but have not fired yet.
NextCorr ==
  \/ Initialize
  \/ \E a \in Streams : ResponseOk(a)
  \/ \E a \in Streams : \E line \in Lines : ServerSends(a, line) /\ StreamData(a, line)
  \/ \E a \in Streams : StreamEnd(a)
  \/ \E a \in Streams : StreamError(a)
  \/ \E a \in Streams : GraceTimer(a)
  \/ \E a \in Streams : \E ok \in BOOLEAN : NotificationPosted(a, ok)
  \/ SendRequest
  \/ \E id \in Ids : RequestTimeout(id)
  \/ \E id \in Ids : \E ok \in BOOLEAN : PostDone(id, ok)
  \/ Disconnect

SpecCorr == Init /\ [][NextCorr]_vars

\* The lines of a handshake: announcements, the endpoint path, responses.
HandshakeLines ==
  {Line("event", "endpoint", 0, FALSE), Line("event", "message", 0, FALSE),
   Line("data", "text", 0, FALSE)}
    \cup {Line("data", "json", i, FALSE) : i \in Ids}

\* The connection life cycle over several attempts: connect, handshake,
\* session initialization, stream termination, reconnect timers and the
\* request timeouts and the watchdog; up to MaxRetries consecutive failures
\* and MaxConnIds requests are followed.
NextConn ==
  \/ Initialize
  \/ \E a \in Streams : ReqError(a)
  \/ \E a \in Streams : ResponseOk(a)
  \/ \E a \in Streams : \E line \in HandshakeLines : StreamData(a, line)
  \/ \E a \in Streams : StreamEnd(a)
  \/ \E a \in Streams : StreamError(a)
  \/ \E a \in Streams : requestId <= MaxConnIds /\ GraceTimer(a)
  \/ \E a \in Streams : requestId <= MaxConnIds /\ NotificationPosted(a, TRUE)
  \/ \E id \in Ids : RequestTimeout(id)
  \/ \E h \in Handles : reconnectAttempts <= MaxRetries /\ BackoffTimer(h)
  \/ HealthCheckTick
  \/ ActivityAges

SpecConn == Init /\ [][NextConn]_vars

\* Timers fire and POSTs complete (axios gives up after 10 s); what the
\* remote side sends, and whether it sends anything, is not constrained.
ConnFairness ==
  /\ WF_vars(\E a \in Streams : requestId <= MaxConnIds /\ GraceTimer(a))
  /\ WF_vars(\E a \in Streams : requestId <= MaxConnIds /\ NotificationPosted(a, TRUE))
  /\ WF_vars(\E id \in Ids : RequestTimeout(id))
  /\ WF_vars(\E h \in Handles : reconnectAttempts <= MaxRetries /\ BackoffTimer(h))
  /\ WF_vars(HealthCheckTick)
  /\ WF_vars(ActivityAges)

SpecConnFair == SpecConn /\ ConnFairness

\* Request ids over several connections: session initialization and callers'
\* requests, stream end and reconnect timers.  The stream of the latest
\* attempt is the one that speaks; up to MaxConnIds requests are sent.
NextIds ==
  \/ Initialize
  \/ \E a \in Streams : ResponseOk(a)
  \/ \E a \in Streams : \E line \in HandshakeLines :
        a = connectionRequest /\ ServerSends(a, line) /\ StreamData(a, line)
  \/ \E a \in Streams : StreamEnd(a)
  \/ \E a \in Streams : requestId <= MaxConnIds /\ GraceTimer(a)
  \/ \E a \in Streams : requestId <= MaxConnIds /\ NotificationPosted(a, TRUE)
  \/ requestId <= MaxConnIds /\ SendRequest
  \/ \E h \in Handles : reconnectAttempts <= MaxRetries /\ BackoffTimer(h)

SpecIds == Init /\ [][NextIds]_vars

\* The watchdog: connections that are established and then fall silent or
\* end, request timeouts, reconnect timers, health-check ticks and the
\* ageing of lastActivity.  The stream of the latest attempt is the one that
\* speaks; up to MaxConnIds requests are sent.
NextWatch ==
  \/ Initialize
  \/ \E a \in Streams : ResponseOk(a)
  \/ \E a \in Streams : \E line \in HandshakeLines :
        a = connectionRequest /\ ServerSends(a, line) /\ StreamData(a, line)
  \/ \E a \in Streams : a = connectionRequest /\ connected /\ StreamEnd(a)
  \/ \E a \in Streams : requestId <= MaxConnIds /\ GraceTimer(a)
  \/ \E a \in Streams : requestId <= MaxConnIds /\ NotificationPosted(a, TRUE)
  \/ \E id \in Ids : RequestTimeout(id)
  \/ \E h \in Handles : reconnectAttempts <= MaxRetries /\ BackoffTimer(h)
  \/ HealthCheckTick
  \/ ActivityAges

SpecWatch == Init /\ [][NextWatch]_vars

\* The silent-stream scenario with time counted in seconds: every stream
\* announces its endpoint within the second in which it opens and then
\* sends nothing, no stream ends or errors; responses and POST results take
\* any time, timers fire when they are due.  Time is counted from the first
\* announcement until the 61 s have passed.
NextSilent ==
  \/ Initialize
  \/ \E a \in Streams : ResponseOk(a)
  \/ \E a \in Streams : EndpointChunk(a)
  \/ \E a \in Streams : Expired(Timer("grace", a)) /\ GraceTimer(a)
  \/ \E id \in Ids : Expired(Timer("req", id)) /\ RequestTimeout(id)
  \/ \E id \in Ids : \E ok \in BOOLEAN : PostDone(id, ok)
  \/ \E h \in Handles : Expired(Timer("retry", h)) /\ BackoffTimer(h)
  \/ Expired(ActivityMark) /\ ActivityAges
  \/ /\ remaining[SilenceClock] > 0
     /\ \A a \in Streams : att[a].stream = "open" => att[a].announced
     /\ Tick

SpecSilent == Init /\ [][NextSilent]_vars

\* Shutdown: cleanup() called at any point of connecting, of an established
\* connection or of a retry; the destroyed request errors or closes, and the
\* timer callbacks that are still pending run.
NextShutdown ==
  \/ Initialize
  \/ \E a \in Streams : ReqError(a)
  \/ \E a \in Streams : ResponseOk(a)
  \/ \E a \in Streams : \E line \in HandshakeLines :
        a = connectionRequest /\ ServerSends(a, line) /\ StreamData(a, line)
  \/ \E a \in Streams : StreamError(a)
  \/ \E a \in Streams : StreamClose(a)
  \/ \E a \in Streams : requestId <= MaxConnIds /\ GraceTimer(a)
  \/ \E a \in Streams : requestId <= MaxConnIds /\ NotificationPosted(a, TRUE)
  \/ \E id \in Ids : RequestTimeout(id)
  \/ \E h \in Handles : reconnectAttempts <= MaxRetries /\ BackoffTimer(h)
  \/ HealthCheckTick
  \/ ActivityAges
  \/ initCalled /\ ~cleanedUp /\ Cleanup

SpecShutdown == Init /\ [][NextShutdown]_vars

\* responses whose entity list is empty after filtering, or without result
EmptyReplies == {r \in Replies : r.entities = NoReply.entities}

\* Process start-up: server.js initialize() awaits the first connect
\* attempt, which succeeds or fails in every way, then starts the cache;
\* the client reconnects up to MaxRetries times; polls are followed until
\* MaxPolls of them failed or MaxConnIds + 1 request ids are in use.
NextStart ==
  \/ ServerInitialize
  \/ \E a \in Streams : ReqError(a)
  \/ \E a \in Streams : ResponseOk(a)
  \/ \E a \in Streams : \E line \in HandshakeLines :
       a = connectionRequest /\ ServerSends(a, line) /\ StreamData(a, line)
  \/ \E a \in Streams : a = connectionRequest /\ connected /\ StreamEnd(a)
  \/ \E a \in Streams : GraceTimer(a)
  \/ \E a \in Streams : NotificationPosted(a, TRUE)
  \/ \E id \in Ids : RequestTimeout(id)
  \/ \E h \in Handles : reconnectAttempts <= MaxRetries /\ BackoffTimer(h)
  \/ (cache.errorCount < MaxPolls /\ requestId <= MaxConnIds + 1 /\ RefreshTimer)
  \/ \E a \in Streams : \E id \in Ids : \E reply \in EmptyReplies :
       a = connectionRequest /\ LiveContextReply(a, id, reply)

SpecStart == Init /\ [][NextStart]_vars

\* The cache on one connection: polls while the client is connected,
\* answered with every entity list or without result, while the clock
\* advances.
NextCache ==
  \/ Initialize
  \/ \E a \in Streams : ResponseOk(a)
  \/ \E a \in Streams : \E line \in HandshakeLines :
       a = connectionRequest /\ ServerSends(a, line) /\ StreamData(a, line)
  \/ \E a \in Streams : GraceTimer(a)
  \/ \E a \in Streams : NotificationPosted(a, TRUE)
  \/ (connected /\ ManualRefresh)
  \/ \E a \in Streams : \E id \in Ids : \E reply \in Replies :
       a = connectionRequest /\ LiveContextReply(a, id, reply)
  \/ ClockAdvances

SpecCache == Init /\ [][NextCache]_vars

\* a response without result, and one listing every entity
PollReplies ==
  {NoReply,
   [result |-> TRUE,
    entities |-> [e \in Entities |-> [state |-> "on", attributes |-> "dim"]]]}

\* Poll cycles that fail: started by the timer or by manualRefresh while the
\* client is not connected, answered without result or with an error,
\* timing out, or their POST failing; between them polls succeed and the
\* clock advances.  Polls are followed until MaxPolls of them failed.
NextPoll ==
  \/ ServerInitialize
  \/ \E a \in Streams : ResponseOk(a)
  \/ \E a \in Streams : \E line \in HandshakeLines :
       a = connectionRequest /\ ServerSends(a, line) /\ StreamData(a, line)
  \/ \E a \in Streams : a = connectionRequest /\ connected /\ StreamEnd(a)
  \/ \E a \in Streams : GraceTimer(a)
  \/ \E a \in Streams : NotificationPosted(a, TRUE)
  \/ (cache.errorCount < MaxPolls /\ RefreshTimer)
  \/ (cache.errorCount < MaxPolls /\ ManualRefresh)
  \/ \E a \in Streams : \E id \in Ids : \E reply \in PollReplies :
       a = connectionRequest /\ LiveContextReply(a, id, reply)
  \/ \E a \in Streams : \E id \in Ids :
       a = connectionRequest /\ fetch[id] = "poll"
         /\ StreamData(a, Line("data", "json", id, TRUE))
  \/ \E id \in Ids :
       (id \notin pendingRequests \/ fetch[id] = "poll") /\ RequestTimeout(id)
  \/ \E id \in Ids : fetch[id] = "poll" /\ PostDone(id, FALSE)
  \/ ClockAdvances

SpecPoll == Init /\ [][NextPoll]_vars

\* The dashboard state is asked for at any time after process start-up,
\* while polls succeed or fail and the direct call of getDashboardState is
\* answered, rejected or times out.
NextDash ==
  \/ ServerInitialize
  \/ \E a \in Streams : ResponseOk(a)
  \/ \E a \in Streams : \E line \in HandshakeLines :
       a = connectionRequest /\ ServerSends(a, line) /\ StreamData(a, line)
  \/ \E a \in Streams : a = connectionRequest /\ connected /\ StreamEnd(a)
  \/ \E a \in Streams : GraceTimer(a)
  \/ \E a \in Streams : NotificationPosted(a, TRUE)
  \/ (cache.errorCount < MaxPolls /\ RefreshTimer)
  \/ GetDashboardState
  \/ \E a \in Streams : \E id \in Ids : \E reply \in PollReplies :
       a = connectionRequest /\ LiveContextReply(a, id, reply)
  \/ \E a \in Streams : \E id \in Ids :
       a = connectionRequest /\ fetch[id] \in {"poll", "dashboard"}
         /\ StreamData(a, Line("data", "json", id, TRUE))
  \/ \E id \in Ids : RequestTimeout(id)

SpecDash == Init /\ [][NextDash]_vars

\* parseLiveContext on every text of up to MaxLines lines and on every
\* envelope
\* An entity written as a block of live context text, in the layout of the
\* fixtures: the header with the name, then domain, quoted state, areas and
\* one line per attribute with the value quoted.
AttributeKeys == << <<"brightness">>, <<"device_class">> >>

attributeLine(key, value) ==
  <<" ", " ", " ", " ">> \o key \o <<":", " ", "'">> \o value \o <<"'">>

RECURSIVE attributeLines(_, _)
attributeLines(attributes, keys) ==
  IF keys = <<>> THEN <<>>
  ELSE (IF Head(keys) \in DOMAIN attributes
        THEN <<attributeLine(Head(keys), attributes[Head(keys)])>> ELSE <<>>)
       \o attributeLines(attributes, Tail(keys))

serialize(entity) ==
  <<NamesHeader \o <<" ">> \o entity.name,
    <<" ", " ">> \o DomainKey \o <<" ">> \o entity.domain,
    <<" ", " ">> \o StateKey \o <<" ", "'">> \o entity.state \o <<"'">>,
    <<" ", " ">> \o AreasKey \o <<" ">> \o entity.area,
    <<" ", " ", "attributes", ":">>>>
  \o attributeLines(entity.attributes, AttributeKeys)

\* well-formed entities: a domain, a state other than 'unavailable'
EntityNames == {<<"Kitchen", " ", "Light">>, <<"Bob", "'", "s", " ", "Lamp">>}
EntityDomains == {<<"light">>, <<"binary_sensor">>}
EntityStates == {<<"on">>, <<"off">>}
EntityAreas == {<<>>, <<"Kitchen">>, <<"Living", " ", "Room">>}
EntityAttributes ==
  UNION {[keys -> {<<"255">>, <<"opening">>}] :
           keys \in SUBSET {AttributeKeys[n] : n \in 1..Len(AttributeKeys)}}

WellFormedEntities ==
  {[id |-> name, name |-> name, domain |-> domain, state |-> state,
    area |-> area, attributes |-> attributes] :
     name \in EntityNames, domain \in EntityDomains, state \in EntityStates,
     area \in EntityAreas, attributes \in EntityAttributes}

\* the parser applied to the text of an entity
RoundTrip ==
  /\ call.fn = "roundTrip" /\ ~call.done
  /\ call' = [call EXCEPT !.done = TRUE,
                          !.result = parseLiveContext(Context(String(serialize(call.input))))]
  /\ UNCHANGED processVars

InitRoundTrip ==
  /\ Constructed
  /\ \E entity \in WellFormedEntities :
       call = [NoCall EXCEPT !.fn = "roundTrip", !.input = entity]

SpecRoundTrip == InitRoundTrip /\ [][RoundTrip]_vars

\* ------------------------------------------------- relevance filter
dashboardEntityTypes ==
  [security |-> [domains |-> {<<"binary_sensor">>, <<"lock">>},
                 deviceClasses |-> {<<"motion">>, <<"opening">>, <<"door">>, <<"window">>,
                                    <<"lock">>, <<"smoke">>, <<"gas">>, <<"safety">>,
                                    <<"problem">>}],
   lights |-> [domains |-> {<<"light">>, <<"switch">>},
               exclude |-> {"schedule", "automation", "script"}],
   climate |-> [domains |-> {<<"climate">>, <<"fan">>, <<"sensor">>},
                deviceClasses |-> {<<"temperature">>, <<"humidity">>}],
   media |-> [domains |-> {<<"media_player">>}],
   doors |-> [domains |-> {<<"cover">>, <<"lock">>},
              deviceClasses |-> {<<"garage">>, <<"door">>, <<"gate">>}]]

DeviceClassKey == <<"device_class">>

\* classes.includes(entity.attributes?.device_class)
deviceClassIn(entity, classes) ==
  /\ DeviceClassKey \in DOMAIN entity.attributes
  /\ entity.attributes[DeviceClassKey] \in classes

\* c.toLowerCase() for the chunks names are made of
lowerChunk(c) ==
  CASE c = "Porch" -> "porch"
    [] c = "Light" -> "light"
    [] c = "Morning" -> "morning"
    [] c = "Schedule" -> "schedule"
    [] c = "Script" -> "script"
    [] OTHER -> c

toLowerCase(s) == [i \in 1..Len(s) |-> lowerChunk(s[i])]

\* s.includes(word), for a word that is a chunk of its own
includes(s, word) == \E i \in 1..Len(s) : s[i] = word

\* the predicate handed to entities.filter
relevant(entity) ==
  LET domain == entity.domain
      name == toLowerCase(entity.name)
      types == dashboardEntityTypes
  IN
  IF /\ domain \in types.security.domains
     /\ \/ domain = <<"binary_sensor">> /\ deviceClassIn(entity, types.security.deviceClasses)
        \/ domain = <<"lock">>
  THEN TRUE
  ELSE IF domain \in types.lights.domains
  THEN ~(\E exclude \in types.lights.exclude : includes(name, exclude))
  ELSE IF /\ domain \in types.climate.domains
          /\ \/ domain \in {<<"climate">>, <<"fan">>}
             \/ domain = <<"sensor">> /\ deviceClassIn(entity, types.climate.deviceClasses)
  THEN TRUE
  ELSE IF domain \in types.media.domains
  THEN TRUE
  ELSE /\ domain \in types.doors.domains
       /\ \/ domain = <<"cover">> /\ deviceClassIn(entity, types.doors.deviceClasses)
          \/ domain = <<"lock">>

filterDashboardRelevantEntities(entities) == SelectSeq(entities, relevant)

\* entities handed to the filter: every branch's domain and one that is in
\* no list, device classes of each list and one that is in none
FilterNames ==
  {<<"Porch", " ", "Light">>, <<"Morning", " ", "Schedule">>, <<"schedule">>}
FilterDomains ==
  {<<"binary_sensor">>, <<"lock">>, <<"light">>, <<"switch">>, <<"climate">>,
   <<"sensor">>, <<"media_player">>, <<"cover">>, <<"automation">>}
FilterAttributes ==
  {[k \in {} |-> <<>>]}
    \cup {[k \in {DeviceClassKey} |-> class] :
            class \in {<<"motion">>, <<"temperature">>, <<"garage">>, <<"battery">>}}

FilterEntities ==
  {[id |-> name, name |-> name, domain |-> domain, state |-> <<"on">>,
    area |-> <<>>, attributes |-> attributes] :
     name \in FilterNames, domain \in FilterDomains, attributes \in FilterAttributes}

FilterDashboardRelevantEntities ==
  /\ call.fn = "filterDashboardRelevantEntities" /\ ~call.done
  /\ call' = [call EXCEPT !.done = TRUE,
                          !.result = Returned(filterDashboardRelevantEntities(call.input))]
  /\ UNCHANGED processVars

InitFilter ==
  /\ Constructed
  /\ \E first, second \in FilterEntities :
       call = [NoCall EXCEPT !.fn = "filterDashboardRelevantEntities",
                             !.input = <<first, second>>]

SpecFilter == InitFilter /\ [][FilterDashboardRelevantEntities]_vars

InitParse ==
  /\ Constructed
  /\ \E contextData \in ContextDataUpTo(MaxLines) :
       call = [NoCall EXCEPT !.fn = "parseLiveContext", !.input = contextData]

SpecParse == InitParse /\ [][ParseLiveContext]_vars

\* One connect attempt, from connectToMCPServer to the end of session
\* initialization, against a server that may refuse, answer, send handshake
\* lines or stay silent at any point; the stream is not terminated.
NextOneAttempt ==
  \/ Initialize
  \/ \E a \in Streams : ReqError(a)
  \/ \E a \in Streams : ResponseRefused(a)
  \/ \E a \in Streams : ResponseOk(a)
  \/ \E a \in Streams : \E line \in HandshakeLines :
       ServerSends(a, line) /\ StreamData(a, line)
  \/ \E a \in Streams : GraceTimer(a)
  \/ \E a \in Streams : \E ok \in BOOLEAN : NotificationPosted(a, ok)
  \/ \E id \in Ids : RequestTimeout(id)
  \/ \E id \in Ids : \E ok \in BOOLEAN : PostDone(id, ok)

SpecAttempt == Init /\ [][NextOneAttempt]_vars

\* Timers fire and POSTs complete (axios gives up after 10 s); whether and
\* when the server answers the GET request or sends a line is up to it.
AttemptFairness ==
  /\ WF_vars(\E a \in Streams : GraceTimer(a))
  /\ WF_vars(\E a \in Streams : \E ok \in BOOLEAN : NotificationPosted(a, ok))
  /\ WF_vars(\E id \in Ids : RequestTimeout(id))
  /\ WF_vars(\E id \in Ids : \E ok \in BOOLEAN : PostDone(id, ok))

SpecAttemptFair == SpecAttempt /\ AttemptFairness

\* How requests are settled on one connection: session initialization and
\* callers' requests, each with its response or error reply (before or after
\* it was settled), its timeout and the completion of its POST, in any order.
NextSettle ==
  \/ Initialize
  \/ \E a \in Streams : ResponseOk(a)
  \/ \E a \in Streams : \E line \in HandshakeLines \cup {Line("data", "json", i, TRUE) : i \in Ids} :
       a = connectionRequest /\ ServerSends(a, line) /\ StreamData(a, line)
  \/ \E a \in Streams : GraceTimer(a)
  \/ \E a \in Streams : \E ok \in BOOLEAN : NotificationPosted(a, ok)
  \/ requestId <= MaxConnIds + 2 /\ SendRequest
  \/ \E id \in Ids : RequestTimeout(id)
  \/ \E id \in Ids : \E ok \in BOOLEAN : PostDone(id, ok)

SpecSettle == Init /\ [][NextSettle]_vars

\* what the server sends while commands are in flight: the handshake,
\* results and error replies
CommandLines ==
  HandshakeLines \cup {Line("data", "json", i, TRUE) : i \in Ids}

\* Command wrappers on one connection: called at any time (before, during
\* and after session initialization, after the stream ended), with results,
\* error replies, timeouts and failed POSTs of the commands' requests;
\* MaxConnIds calls are followed after the two requests of session
\* initialization.
NextCmd ==
  \/ Initialize
  \/ \E a \in Streams : ResponseOk(a)
  \/ \E a \in Streams : \E line \in CommandLines :
       a = connectionRequest /\ ServerSends(a, line) /\ StreamData(a, line)
  \/ \E a \in Streams : a = connectionRequest /\ connected /\ StreamEnd(a)
  \/ \E a \in Streams : GraceTimer(a)
  \/ \E a \in Streams : \E ok \in BOOLEAN : NotificationPosted(a, ok)
  \/ \E w \in Wrappers : \E action \in MediaActions :
       requestId <= MaxConnIds + 2 /\ Command(w, action)
  \/ \E id \in Ids : RequestTimeout(id)
  \/ \E id \in Ids : \E ok \in BOOLEAN :
       commandResult[id] = "waiting" /\ PostDone(id, ok)

SpecCmd == Init /\ [][NextCmd]_vars

\* The retry loop: attempts that fail (refused, no endpoint within the grace
\* window, stream ended), backoff timers and the cooldown.
NextBackoff ==
  \/ Initialize
  \/ \E a \in Streams : ReqError(a)
  \/ \E a \in Streams : ResponseRefused(a)
  \/ \E a \in Streams : ResponseOk(a)
  \/ \E a \in Streams : StreamEnd(a)
  \/ \E a \in Streams : GraceTimer(a)
  \/ \E h \in Handles : BackoffTimer(h)
  \/ \E h \in Handles : CooldownTimer(h)

SpecBackoff == Init /\ [][NextBackoff]_vars

\* ================================================================ claims
Pending(id) == outcome[id] = "pending"
Settled(id) == outcome[id] \in {"resolved", "rejected", "timeout"}

\* a stream that was open terminated in this step ('end' or 'error')
Terminated(a) == att[a].stream = "open" /\ att'[a].stream # "open"

\* C1: a response line carrying id i settles the promise of the request that
\* was given id i, resolving it when the line has no error member and
\* rejecting it otherwise, and settles no other request's promise: every
\* promise settled by a response line was settled by the line with its own id.
C1_ReplyReachesItsCaller ==
  \A id \in Ids :
    deliveredBy[id] # 0 =>
      /\ deliveredBy[id] = id
      /\ outcome[id] \in {"resolved", "rejected"}
      /\ id \notin pendingRequests

\* C1 witness: of two requests pending together, the later one has been
\* answered first while the earlier one is still waiting.
C1_Witness ==
  \E i, j \in Ids :
    /\ i < j
    /\ Pending(i) /\ i \in pendingRequests
    /\ outcome[j] = "resolved" /\ deliveredBy[j] = j

\* C2 (as claimed): when the stream ends or errors, or disconnect() runs,
\* every pending request is rejected at once, and no request leaves the
\* pending table without its promise being settled.
C2_PendingFailedOnDisconnect ==
  /\ [](\A id \in Ids : Pending(id) => id \in pendingRequests)
  /\ [][(\E a \in Streams : Terminated(a)) =>
          \A id \in Ids : ~Pending(id)']_vars

\* C3: when the 10 s timer of a request fires while the request is still in
\* the table, the request is rejected with a timeout and removed; from then
\* on its promise stays as it is, whatever line arrives with its id.
C3_TimeoutThenLateReplyIgnored ==
  /\ [](\A id \in Ids : outcome[id] = "timeout" =>
          id \notin pendingRequests /\ id \notin reqTimers /\ deliveredBy[id] = 0)
  /\ [][\A id \in Ids :
          /\ (id \in reqTimers /\ id \notin reqTimers' /\ id \in pendingRequests)
               => (outcome'[id] = "timeout" /\ id \notin pendingRequests')
          /\ outcome[id] = "timeout" => outcome'[id] = "timeout"]_vars

\* C3 witness: a request timed out and a response line with its id arrived
\* afterwards.
C3_Witness ==
  lateReply /\ \E id \in Ids : outcome[id] = "timeout" /\ id \notin pendingRequests

\* C4: request ids are handed out in strictly increasing order: every id in
\* the pending table was allocated before the current counter value, the
\* counter never goes back, and an id enters the table only as the current
\* counter value, which no earlier request has had, also after a reconnect.
C4_IdsIncreaseNeverReused ==
  /\ [](\A id \in pendingRequests : id < requestId /\ Pending(id))
  /\ [][/\ requestId' >= requestId
        /\ \A id \in pendingRequests' \ pendingRequests :
             /\ id = requestId
             /\ requestId' = id + 1
             /\ outcome[id] = "none"]_vars

\* C4 witness: after a reconnect, the initialize request of the new attempt
\* is pending together with a request of an earlier attempt.
C4_Witness ==
  \E a \in Streams :
    /\ att[a].phase = "init"
    /\ att[a].rid \in pendingRequests
    /\ \E i \in pendingRequests : i < att[a].rid

\* C5: sendMCPRequest accepts a call exactly when (allowDuringInit or
\* isConnected()) and the HTTP client and the endpoint are present; an
\* accepted call takes the next id, records it as pending and POSTs it; a
\* refused call changes nothing.  No id enters the table in another way.
C5_SendGuard ==
  /\ [](requestId <= MaxRequestId =>
          \A allow \in BOOLEAN :
            LET r == sendMCPRequest(St, allow)
                accepted == /\ allow \/ isConnected(St)
                            /\ httpClient
                            /\ mcpEndpoint # NoEndpoint
            IN /\ r.sent <=> accepted
               /\ ~accepted => r = St
               /\ accepted =>
                    /\ r.requestId = requestId + 1
                    /\ r.pendingRequests = pendingRequests \cup {requestId}
                    /\ r.posts = posts \cup {requestId})
  /\ [][\A id \in pendingRequests' \ pendingRequests :
          /\ httpClient /\ mcpEndpoint # NoEndpoint
          /\ \/ connected
             \/ \E a \in Streams :
                  att'[a].rid = id /\ att'[a].phase \in {"init", "tools"}]_vars

\* C5 witness: the initialize request of a session was accepted while the
\* connected flag is false.
C5_Witness ==
  \E a \in Streams :
    /\ att[a].phase = "init"
    /\ att[a].rid \in pendingRequests
    /\ ~connected

\* C6 (as claimed): isConnected() is true only when the connected flag is set
\* and an endpoint is present.
C6_IsConnectedNeedsEndpoint ==
  isConnected(St) => connected /\ mcpEndpoint # NoEndpoint

\* C7 (as claimed): a connect attempt succeeds only after its own stream has
\* announced an endpoint; when the grace timer fires and its stream has
\* announced none, the attempt fails and the client is not connected.
C7_ConnectNeedsOwnEndpoint ==
  /\ [](\A a \in Streams : att[a].promise = "resolved" => att[a].announced)
  /\ [][\A a \in Streams :
          (att[a].phase = "grace" /\ att'[a].phase # "grace" /\ ~att[a].announced)
            => (att'[a].phase \in {"over", "free"} /\ ~connected')]_vars

\* C8 (as claimed): when a stream terminates ('end' or 'error') the client is
\* not connected and holds no endpoint afterwards.
C8_TerminationInvalidatesEndpoint ==
  [][(\E a \in Streams : Terminated(a)) =>
       (~connected' /\ mcpEndpoint' = NoEndpoint)]_vars

\* a bound of the model holds back a step that the program would take
Blocked ==
  \/ /\ requestId > MaxConnIds
     /\ \E a \in Streams : att[a].phase \in {"grace", "notif"}
  \/ /\ \E h \in Handles : timers[h].kind = "backoff"
     /\ \/ reconnectAttempts > MaxRetries
        \/ \A a \in Streams : att[a].phase # "free"

\* C9 (as claimed): whenever the client becomes not connected (failed
\* attempt, stream end, stream error after a successful connect, watchdog
\* staleness), a new connect attempt is eventually started.
C9_ReconnectsEventually ==
  lost ~> (~lost \/ Blocked)

\* min(1000 * 2^(attempt-1), 30000) for attempt = 1..10
DelayTable == <<1000, 2000, 4000, 8000, 16000, 30000, 30000, 30000, 30000, 30000>>

\* a backoff retry is scheduled in this step
RetryScheduled ==
  \E h \in Handles : timers[h].kind # "backoff" /\ timers'[h].kind = "backoff"

\* the cooldown timer fires in this step
CooldownElapsed ==
  \E h \in Handles : timers[h].kind = "cooldown" /\ timers'[h].kind # "cooldown"

RetryDelays ==
  \A h \in Handles :
    timers[h].kind = "backoff" =>
      /\ timers[h].attempt \in 1..maxReconnectAttempts
      /\ timers[h].delay = DelayTable[timers[h].attempt]
      /\ timers[h].delay <= maxReconnectDelay

RetryCounts ==
  RetryScheduled =>
    /\ \E h \in Handles : timers'[h].kind = "backoff"
                            /\ timers'[h].attempt = reconnectAttempts'
    /\ \/ reconnectAttempts' = reconnectAttempts + 1
       \/ CooldownElapsed /\ reconnectAttempts' = 1

\* C10 (as claimed): each backoff retry takes the next attempt number and the
\* delay min(1000 * 2^(attempt-1), 30000), and the delay never decreases from
\* one failed attempt to the next.
C10_DelayNeverDecreases ==
  /\ []RetryDelays
  /\ [][RetryCounts /\ (RetryScheduled => lastDelay' >= lastDelay)]_vars

\* C10 (amended): as claimed, except that after a cooldown has reset the
\* counter the next retry is attempt 1 again, with 1000 ms: the delay does
\* not decrease from one retry to the next unless the next is attempt 1.
C10_BackoffDelays ==
  /\ []RetryDelays
  /\ [][/\ RetryCounts
        /\ RetryScheduled =>
             \/ lastDelay' >= lastDelay
             \/ reconnectAttempts' = 1 /\ lastDelay' = reconnectDelay]_vars

\* C10 witness: the tenth retry is pending with the capped delay.
C10_Witness ==
  \E h \in Handles :
    timers[h] = [kind |-> "backoff", delay |-> 30000, attempt |-> 10]

\* a connect attempt fails in this step (its promise is rejected)
AttemptFailed ==
  \E a \in Streams :
    att[a].promise = "pending" /\ att'[a].promise \in {"rejected", "none"}

\* a connect attempt is started in this step
AttemptStarted ==
  \E a \in Streams : att[a].phase # "req" /\ att'[a].phase = "req"

\* a cooldown timer is set in this step
CooldownScheduled ==
  \E h \in Handles :
    /\ timers[h].kind = "none"
    /\ timers'[h] = [kind |-> "cooldown", delay |-> cooldownDelay,
                      attempt |-> maxReconnectAttempts]

CooldownPending == \E h \in Handles : timers[h].kind = "cooldown"

\* C11 (as claimed): when an attempt fails after the counter has reached
\* maxReconnectAttempts, the retry is scheduled with the cooldown delay and
\* not with a backoff delay, and while a cooldown is pending no connect
\* attempt is started.
C11_CooldownAfterMaxAttempts ==
  [][/\ (AttemptFailed /\ reconnectAttempts >= maxReconnectAttempts)
          => (CooldownScheduled /\ ~RetryScheduled)
     /\ CooldownPending => ~AttemptStarted]_vars

\* a connect attempt succeeds in this step (its promise is resolved)
AttemptSucceeded ==
  \E a \in Streams : att[a].promise = "pending" /\ att'[a].promise = "resolved"

\* C12: in the step in which a connect attempt succeeds, the attempt counter
\* becomes zero and the health check is running with its interval started
\* anew (it is the timer set last).
C12_SuccessResetsCounter ==
  [][AttemptSucceeded =>
       /\ reconnectAttempts' = 0
       /\ healthCheckInterval'
       /\ Len(timerQueue') > 0
       /\ timerQueue'[Len(timerQueue')] = HealthTimer]_vars

\* C12 witness: an attempt started by a reconnect timer has succeeded after
\* an earlier attempt failed; the counter is zero and the health check runs.
C12_Witness ==
  /\ \E a, b \in Streams :
       att[a].promise = "resolved" /\ att[b].promise = "rejected"
  /\ connected /\ reconnectAttempts = 0 /\ healthCheckInterval

\* C13: a health-check tick that finds the last stream activity more than
\* 60 s old clears the connected flag and goes through scheduleReconnect (a
\* retry is scheduled with the next attempt number, or the cooldown when the
\* maximum is reached, or nothing more when a retry is pending already); a
\* tick that finds the activity at most 60 s old changes nothing.
C13_WatchdogTick ==
  [][HealthCheckTick =>
       IF lastActivity = "stale"
       THEN /\ ~connected'
            /\ reconnectAttempts >= maxReconnectAttempts => CooldownScheduled
            /\ (reconnectAttempts < maxReconnectAttempts /\ ~isReconnecting) =>
                 /\ RetryScheduled
                 /\ reconnectAttempts' = reconnectAttempts + 1
                 /\ isReconnecting'
            /\ (reconnectAttempts < maxReconnectAttempts /\ isReconnecting) =>
                 UNCHANGED <<timers, reconnectAttempts, isReconnecting>>
       ELSE UNCHANGED <<connected, httpClient, mcpEndpoint, currentEventType,
                        requestId, pendingRequests, reconnectAttempts,
                        isReconnecting, reconnectTimer, healthCheckInterval,
                        connectionRequest, lastActivity, timers, att>>]_vars

\* C13 witness: the stream of the established connection is still open, no
\* 'end' or 'error' came, and the watchdog has marked the client
\* disconnected and scheduled a retry.
C13_Witness ==
  /\ \E a \in Streams :
       /\ a = connectionRequest
       /\ att[a].stream = "open" /\ att[a].promise = "resolved"
  /\ lastActivity = "stale" /\ healthCheckInterval
  /\ ~connected /\ isReconnecting /\ lost

\* C14: 61 s after a stream announced its endpoint and fell silent, with no
\* stream 'end' or 'error', the client is not connected and has entered
\* reconnection (a retry has been scheduled).
C14_SilentStreamReconnects ==
  Expired(SilenceClock) =>
    /\ ~connected
    /\ reconnectAttempts >= 1
    /\ \A a \in Streams : att[a].stream \in {"none", "open"}

\* C14 witness: the 61 s have passed; the silent stream is still open and a
\* retry is pending or a later attempt is under way.
C14_Witness ==
  /\ Expired(SilenceClock)
  /\ \E a \in Streams : att[a].stream = "open" /\ att[a].announced
  /\ isReconnecting \/ \E a \in Streams : att[a].promise = "pending"

\* a timer of the client (timeout or interval) is pending
TimerPending ==
  \E i \in 1..Len(timerQueue) : timerQueue[i] # ActivityMark

\* a timer callback of the client runs in this step
TimerCallbackRuns ==
  \E i \in 1..Len(timerQueue) :
    /\ timerQueue[i] # ActivityMark
    /\ \/ \A j \in 1..Len(timerQueue') : timerQueue'[j] # timerQueue[i]
       \/ timerQueue[i] = HealthTimer /\ HealthCheckTick

\* C15 (as claimed): once cleanup() has returned no timer of the client is
\* pending, the health check is off and no request is stored; afterwards no
\* timer callback runs, no connect attempt is started and no reconnect or
\* cooldown timer is set.
C15_CleanupCancelsEverything ==
  /\ [](cleanedUp => ~TimerPending /\ ~healthCheckInterval)
  /\ [][(cleanedUp /\ cleanedUp') =>
          /\ ~TimerCallbackRuns
          /\ ~AttemptStarted
          /\ ~RetryScheduled /\ ~CooldownScheduled]_vars

\* C16: a command wrapper never throws; the call that sent request id
\* returns {success: true} exactly when the request was resolved and
\* {success: false} exactly when it was rejected or timed out; a call that
\* sent no request returns {success: false}; controlMediaPlayer with an
\* unknown action sends no request.
C16_CommandsReturnTaggedOutcome ==
  /\ [](/\ noRequestResult \in {"none", "failure"}
        /\ \A id \in Ids :
             /\ commandResult[id] \in {"none", "waiting", "success", "failure"}
             /\ commandResult[id] = "waiting" => outcome[id] = "pending"
             /\ commandResult[id] = "success" => outcome[id] = "resolved"
             /\ commandResult[id] = "failure" => outcome[id] \in {"rejected", "timeout"})
  /\ [][Command("controlMediaPlayer", "stop") =>
          /\ UNCHANGED <<requestId, pendingRequests, posts, reqTimers>>
          /\ noRequestResult' = "failure"]_vars

\* C16 witness: command calls have returned success, failure after a
\* timeout, and failure without a request having been sent.
C16_Witness ==
  /\ noRequestResult = "failure"
  /\ \E i, j \in Ids :
       /\ commandResult[i] = "success"
       /\ commandResult[j] = "failure" /\ outcome[j] = "timeout"

\* C17: the step that starts the cache's polling loop is never taken with
\* the initial connect attempt failed and the client not connected.
C17_PollingStartsAfterConnected ==
  [][(~cache.refreshCyclesStarted /\ cache'.refreshCyclesStarted)
       => ~(server'.initResult = "rejected" /\ ~connected')]_vars

\* what a successful poll that filtered this list leaves for entity e
EntryAfterPoll(filtered, e) ==
  LET existing == cache.deviceCache[e]
      entity == filtered[e]
  IN IF entity = Missing THEN existing
     ELSE IF existing = NoEntry \/ existing.state # entity.state
          THEN [state |-> entity.state, attributes |-> entity.attributes,
                lastChanged |-> now, lastSeen |-> now]
          ELSE [existing EXCEPT !.lastSeen = now]

\* C18: on a successful poll, an entity that is absent from the cache or
\* whose state differs from the stored one replaces the entry with its
\* fields and lastChanged = lastSeen = now; an entity whose state equals the
\* stored one only updates lastSeen; entries of other ids stay.
C18_PollUpdatesByChange ==
  [][\A id \in Ids :
       (fetch[id] = "poll" /\ fetch'[id] = "pollOk") =>
         /\ \E a \in Streams : \E reply \in Replies :
              /\ reply.result /\ reply.entities = cache'.filteredEntities
              /\ LiveContextReply(a, id, reply)
         /\ \A e \in Entities :
              cache'.deviceCache[e] = EntryAfterPoll(cache'.filteredEntities, e)]_vars

\* C18 witness: after two successful polls at different times one entry was
\* only seen again and another was written anew by the second poll.
C18_Witness ==
  /\ cache.totalPolls = 2
  /\ \E e1, e2 \in Entities :
       /\ cache.deviceCache[e1] # NoEntry
       /\ cache.deviceCache[e1].lastChanged < cache.deviceCache[e1].lastSeen
       /\ cache.deviceCache[e2] # NoEntry
       /\ cache.deviceCache[e2].lastChanged = cache.lastUpdate
       /\ cache.lastUpdate > 1

\* a step in which a poll cycle fails: its request is rejected, times out
\* or is answered without result, or the cycle could not send a request
FailedPollStep ==
  \/ \E id \in Ids : fetch[id] = "poll" /\ fetch'[id] = "pollFailed"
  \/ (RefreshTimer \/ ManualRefresh) /\ requestId' = requestId
  \/ ~cache.refreshCyclesStarted /\ cache'.refreshCyclesStarted /\ requestId' = requestId

\* C19: a poll cycle that fails increments errorCount by one, leaves every
\* cache entry, lastUpdate and totalPolls as they were, and returns to its
\* caller instead of throwing.
C19_FailedPollLeavesCache ==
  [][FailedPollStep =>
       /\ cache'.errorCount = cache.errorCount + 1
       /\ cache'.deviceCache = cache.deviceCache
       /\ cache'.lastUpdate = cache.lastUpdate
       /\ cache'.totalPolls = cache.totalPolls
       /\ cache'.returned = "cache"]_vars

\* C19 witness: a poll failed at a later time than the successful poll that
\* filled the cache.
C19_Witness ==
  /\ cache.lastUpdate > 0
  /\ cache.lastErrorTime > cache.lastUpdate
  /\ \A e \in Entities : cache.deviceCache[e] # NoEntry
  /\ \E id \in Ids : fetch[id] = "pollFailed"

\* a step in which a call of getDashboardState returns
DashboardReturns ==
  \/ \E id \in Ids : fetch[id] = "dashboard" /\ fetch'[id] # "dashboard"
  \/ GetDashboardState /\ requestId' = requestId

\* C20: getDashboardState returns the 'Unable to connect to Home Assistant'
\* placeholder only while no poll has succeeded since process start.
C20_PlaceholderOnlyBeforeFirstPoll ==
  [][(DashboardReturns /\ service'.returned = "placeholder")
       => cache.totalPolls = 0]_vars

\* C21: parseLiveContext never raises, and returns no entity for null and
\* for an empty result string.
C21_ParseIsTotal ==
  (call.fn = "parseLiveContext" /\ call.done) =>
    /\ ~call.result.raised
    /\ call.input \in {Null, Context(String(<<>>))} => call.result.devices = <<>>

\* the lines at which a block of the text starts, and the lines of a block
BlockStarts(text) == {i \in 1..Len(text) : startsWith(text[i], NamesHeader)}

BlockLines(text, i) ==
  {j \in (i + 1)..Len(text) : \A k \in BlockStarts(text) : k <= i \/ k > j}

\* the blocks whose header carries a name
NamedBlocks(text) == {i \in BlockStarts(text) : nameMatch(text[i]).matched}

\* the lines of block i that give the field named by key, and its value
\* (the last of them counts)
FieldLines(text, i, key) ==
  {j \in BlockLines(text, i) : startsWith(trim(text[j]), key)}

FieldValue(text, i, key) ==
  LET js == FieldLines(text, i, key) IN
  IF js = {} THEN <<>>
  ELSE LET j == CHOOSE x \in js : \A y \in js : y <= x IN
       stripQuotes(trim(dropPrefix(trim(text[j]), key)))

\* block i has a domain recorded and its state is not 'unavailable'
BlockKept(text, i) ==
  /\ FieldValue(text, i, DomainKey) # <<>>
  /\ FieldValue(text, i, StateKey) # unavailable

\* a call of parseLiveContext with a text has returned
ParsedText ==
  /\ call.fn = "parseLiveContext" /\ call.done /\ ~call.result.raised
  /\ call.input.t = "context" /\ call.input.result.t = "string"

\* C22: the result of parseLiveContext holds no entity without domain and
\* none whose state is 'unavailable', and one entity for every named block
\* of the text that has a domain recorded and another state.
C22_UnavailableBlocksExcluded ==
  ParsedText =>
    LET text == call.input.result.text
        devices == call.result.devices
    IN /\ \A n \in 1..Len(devices) : keptDevice(devices[n])
       /\ Len(devices) = Cardinality({i \in NamedBlocks(text) : BlockKept(text, i)})

\* the record that the lines of block i alone give: the header and the
\* lines up to the next header, parsed on their own
OwnRecord(text, i) ==
  LET last == IF BlockLines(text, i) = {} THEN i
              ELSE CHOOSE x \in BlockLines(text, i) : \A y \in BlockLines(text, i) : y <= x
      st == parseLines([objects |-> <<>>, devices |-> <<>>, currentDevice |-> 0],
                       SubSeq(text, i, last))
  IN st.objects[1]

\* C23: the entities parseLiveContext returns are, one to one and in the
\* order of the text, records of distinct named blocks, each with exactly the
\* domain, state, area and attributes that the lines of its own block give.
C23_OneRecordPerBlockInOrder ==
  ParsedText =>
    LET text == call.input.result.text
        devices == call.result.devices
    IN \E f \in [1..Len(devices) -> NamedBlocks(text)] :
         /\ \A m, n \in 1..Len(devices) : m < n => f[m] < f[n]
         /\ \A n \in 1..Len(devices) : devices[n] = OwnRecord(text, f[n])

\* C24: parsing the text of a well-formed entity returns exactly that
\* entity: one record with its name, domain, state, area and attributes.
C24_ParseInvertsSerialize ==
  (call.fn = "roundTrip" /\ call.done) =>
    call.result = Returned(<<call.input>>)

\* the list holds the entity
Holds(devices, entity) == \E n \in 1..Len(devices) : devices[n] = entity

\* C25: two entities with the same domain and the same device_class that
\* are filtered together are both kept or both dropped, whatever their names.
C25_FilterIgnoresNames ==
  (call.fn = "filterDashboardRelevantEntities" /\ call.done) =>
    LET first == call.input[1]
        second == call.input[2]
    IN (first.domain = second.domain /\ first.attributes = second.attributes)
         => (Holds(call.result.devices, first) <=> Holds(call.result.devices, second))

\* C26: the promise of a request is settled at most once.  A step settles it
\* only while its entry is in pendingRequests and removes the entry in the
\* same step; once it is settled no entry is left and no response line,
\* timeout or failed POST changes how it stands.
C26_SettledAtMostOnce ==
  [][\A id \in Ids :
       /\ Settled(id) => (id \notin pendingRequests /\ outcome'[id] = outcome[id])
       /\ (Pending(id) /\ Settled(id)')
            => (id \in pendingRequests /\ id \notin pendingRequests')]_vars

\* a request was resolved by its response line, and afterwards its POST
\* completed and its timeout fired
C26_Witness ==
  \E id \in Ids :
    /\ outcome[id] = "resolved" /\ deliveredBy[id] = id
    /\ id \notin reqTimers /\ id \notin posts

\* the promise of attempt a is resolved, or rejected, in this step; an
\* attempt that is forgotten in the step that settles it is told by the
\* flag its callback has set
AttemptResolves(a) ==
  /\ att[a].promise = "pending"
  /\ att'[a].promise = "resolved" \/ (att'[a] = FreeAtt /\ connected')

AttemptRejects(a) ==
  /\ att[a].promise = "pending"
  /\ att'[a].promise = "rejected" \/ (att'[a] = FreeAtt /\ ~connected')

\* the request an attempt's session initialization awaits fails in this step
AwaitedFails(a) ==
  /\ Pending(att[a].rid)
  /\ outcome'[att[a].rid] \in {"rejected", "timeout"}

\* C27: session initialization is ordered.  The notification is POSTed only
\* in the step in which the initialize request is resolved, tools/list is
\* sent only when the POST of the notification has succeeded, and connected
\* becomes true only after that, when tools/list is settled or was not sent.
\* A failure of tools/list resolves the attempt; a failure of initialize or
\* of the notification rejects it.
C27_SessionInitializationOrdered ==
  [][/\ (connected' /\ ~connected) =>
          \E a \in Streams :
            \/ att[a].phase = "tools" /\ outcome'[att[a].rid] # "pending"
            \/ att[a].phase = "notif" /\ NotificationPosted(a, TRUE)
     /\ \A a \in Streams :
          /\ (att[a].phase # "notif" /\ att'[a].phase = "notif") =>
               /\ att[a].phase = "init"
               /\ Pending(att[a].rid) /\ outcome'[att[a].rid] = "resolved"
          /\ (att[a].phase # "tools" /\ att'[a].phase = "tools") =>
               att[a].phase = "notif" /\ NotificationPosted(a, TRUE)
          /\ (att[a].phase = "tools" /\ att[a].promise = "pending" /\ AwaitedFails(a))
               => (connected' /\ AttemptResolves(a))
          /\ (att[a].phase = "init" /\ att[a].promise = "pending" /\ AwaitedFails(a))
               => (~connected' /\ AttemptRejects(a))
          /\ (att[a].phase = "notif" /\ att[a].promise = "pending"
                /\ NotificationPosted(a, FALSE))
               => (~connected' /\ AttemptRejects(a))]_vars

\* an attempt was resolved although its tools/list request failed
C27_Witness ==
  \E a \in Streams :
    /\ att[a].phase = "over" /\ att[a].promise = "resolved" /\ connected
    /\ att[a].rid \in Ids /\ outcome[att[a].rid] \in {"rejected", "timeout"}

\* C28: every connect attempt that was started is settled eventually: the
\* promise of connectToMCPServer does not stay pending for ever, whatever
\* the server sends or withholds.
C28_AttemptsAreBounded ==
  \A a \in Streams : (att[a].promise = "pending") ~> (att[a].promise # "pending")

\* C29: a cooldown that elapses finds the counter at the maximum it was
\* entered with, so that the counter is reset once for each cooldown, and
\* leaves the first backoff retry scheduled (attempt 1, 1000 ms); the counter
\* decreases in no other step than this and a successful attempt.
C29_CooldownResetsOnce ==
  [][/\ CooldownElapsed =>
          /\ reconnectAttempts = maxReconnectAttempts
          /\ reconnectAttempts' = 1 /\ lastDelay' = reconnectDelay
          /\ \E h \in Handles :
               timers'[h] = [kind |-> "backoff", delay |-> reconnectDelay, attempt |-> 1]
     /\ reconnectAttempts' < reconnectAttempts =>
          (CooldownElapsed \/ AttemptSucceeded)]_vars

\* the poll cycles (refreshDeviceCache calls) that await their upstream fetch
PollsInFlight == {id \in Ids : fetch[id] = "poll" /\ Pending(id)}

\* C30: at most one poll cycle is in flight at any time; a timer tick or a
\* manualRefresh starts a cycle only when no earlier one is still awaiting
\* its fetch.
C30_OnePollInFlight ==
  Cardinality(PollsInFlight) <= 1

\* request id is not one that a session initialization is awaiting
CallersRequest(id) ==
  \A a \in Streams : ~(att[a].phase \in {"init", "tools"} /\ att[a].rid = id)

\* the next data line of stream a is the one that directly follows the
\* announcement `event: endpoint` of its connection
FollowsAnnouncement(a) == currentEventType = "endpoint" /\ ~att[a].announced

\* a data line that fails at most the call with its id: not JSON, an error
\* envelope, JSON without id or with an id that is not pending
FailureLine(line) ==
  /\ line.k = "data"
  /\ \/ line.arg = "text"
     \/ line.err
     \/ line.id \notin pendingRequests

\* the connection, the Endpoint, the reconnect state and the other pending
\* requests are as before
OnlyItsCallFails(id) ==
  /\ connected' = connected
  /\ mcpEndpoint' = mcpEndpoint
  /\ reconnectAttempts' = reconnectAttempts
  /\ isReconnecting' = isReconnecting
  /\ reconnectTimer' = reconnectTimer
  /\ timers' = timers
  /\ pendingRequests' \in {pendingRequests, pendingRequests \ {id}}

\* C31: the timeout of a caller's request, and a data line other than the
\* endpoint path that is not JSON, is an error envelope, has no id or an id
\* that is not pending, leave connected, the Endpoint, the reconnect state
\* and every other pending request unchanged; at most the pending entry with
\* that id is removed.
C31_PerCallFailureIsolated ==
  [][\A id \in 0..MaxRequestId :
       CallersRequest(id) =>
         /\ RequestTimeout(id) => OnlyItsCallFails(id)
         /\ \A a \in Streams : \A line \in Lines :
              (/\ line.id = id /\ FailureLine(line)
               /\ ~FollowsAnnouncement(a) /\ StreamData(a, line))
                => OnlyItsCallFails(id)]_vars

\* C32: the Endpoint is assigned only by the data line that directly follows
\* the announcement `event: endpoint` of a connection; no other data line
\* changes it.
C32_EndpointAssignedOnce ==
  [][(mcpEndpoint' # mcpEndpoint /\ mcpEndpoint' # NoEndpoint) =>
       \E a \in Streams : FollowsAnnouncement(a) /\ att'[a].announced]_vars

\* a poll cycle succeeds in this step
PollSucceeds == \E id \in Ids : fetch[id] = "poll" /\ fetch'[id] = "pollOk"

\* C33: no step removes a cache entry, and an entry changes only in a step
\* in which a poll succeeds whose list holds its entity: an entity absent
\* from a poll keeps its state, lastChanged and lastSeen.
C33_EntriesAreNeverRemoved ==
  [][\A e \in Entities :
       /\ cache.deviceCache[e] # NoEntry => cache'.deviceCache[e] # NoEntry
       /\ cache'.deviceCache[e] # cache.deviceCache[e] =>
            (PollSucceeds /\ cache'.filteredEntities[e] # Missing)]_vars

\* an entity is cached although the second successful poll did not list it
C33_Witness ==
  /\ cache.totalPolls = 2
  /\ \E e \in Entities :
       /\ cache.deviceCache[e] # NoEntry
       /\ cache.filteredEntities[e] = Missing
       /\ cache.deviceCache[e].lastSeen < cache.lastUpdate

\* C34: totalPolls and errorCount never decrease; a poll cycle that succeeds
\* increments totalPolls by one and leaves errorCount, one that fails
\* increments errorCount by one and leaves totalPolls, and no other step
\* changes either, so their sum is the number of completed cycles.
C34_PollCountersMonotonic ==
  [][/\ cache'.totalPolls >= cache.totalPolls
     /\ cache'.errorCount >= cache.errorCount
     /\ PollSucceeds =>
          /\ cache'.totalPolls = cache.totalPolls + 1
          /\ cache'.errorCount = cache.errorCount
     /\ FailedPollStep =>
          /\ cache'.errorCount = cache.errorCount + 1
          /\ cache'.totalPolls = cache.totalPolls
     /\ ~(PollSucceeds \/ FailedPollStep) =>
          /\ cache'.totalPolls = cache.totalPolls
          /\ cache'.errorCount = cache.errorCount]_vars

\* cycles of both kinds have completed
C34_Witness ==
  /\ cache.totalPolls >= 1 /\ cache.errorCount >= 2
  /\ \E id \in Ids : fetch[id] = "pollOk"
  /\ \E id \in Ids : fetch[id] = "pollFailed"

\* timers of the retry chain that have been set and have not yet run
PendingRetryTimers == {h \in Handles : timers[h].kind \in {"backoff", "cooldown"}}

\* connectToMCPServer calls whose promise has not settled
AttemptsInFlight == {a \in Streams : att[a].promise = "pending"}

\* C35: at any time at most one reconnect or cooldown timer is pending and at
\* most one connect attempt is in flight, and the two never overlap into a
\* second retry chain.
C35_OneRetryChain ==
  /\ Cardinality(PendingRetryTimers) <= 1
  /\ Cardinality(AttemptsInFlight) <= 1

\* stream a is still open although a newer attempt owns the connection and
\* has succeeded
Superseded(a) ==
  /\ connectionRequest \notin {0, a}
  /\ att[a].stream = "open"
  /\ att[connectionRequest].promise = "resolved"
  /\ att[connectionRequest].stream = "open"
  /\ connected

\* an 'end', 'error' or 'data' event of stream a is handled in this step
StreamEvent(a) ==
  \/ StreamEnd(a)
  \/ StreamError(a)
  \/ \E line \in HandshakeLines : StreamData(a, line)

CurrentConnectionUntouched ==
  /\ connected' = connected
  /\ mcpEndpoint' = mcpEndpoint
  /\ lastActivity' = lastActivity
  /\ timers' = timers
  /\ reconnectAttempts' = reconnectAttempts
  /\ isReconnecting' = isReconnecting

\* C36: once a newer connect attempt has succeeded, an 'end', 'error' or
\* 'data' event of an older stream neither clears connected, nor schedules a
\* reconnect, nor changes the Endpoint or lastActivity.
C36_SupersededStreamIsInert ==
  [][\A a \in Streams :
       (Superseded(a) /\ StreamEvent(a)) => CurrentConnectionUntouched]_vars

InitPhases == {"init", "notif", "tools"}

\* Connect attempts whose stream closes or fails only before the grace timer
\* of that attempt has fired, and a disconnect() that runs only while every
\* running attempt is in its session initialization.
NextTorn ==
  \/ Initialize
  \/ \E a \in Streams : ResponseOk(a)
  \/ \E a \in Streams : \E line \in HandshakeLines :
       ServerSends(a, line) /\ StreamData(a, line)
  \/ \E a \in Streams : att[a].phase = "grace" /\ StreamEnd(a)
  \/ \E a \in Streams : att[a].phase = "grace" /\ StreamError(a)
  \/ \E a \in Streams : GraceTimer(a)
  \/ \E a \in Streams : \E ok \in BOOLEAN : NotificationPosted(a, ok)
  \/ \E id \in Ids : RequestTimeout(id)
  \/ \E h \in Handles : reconnectAttempts <= MaxRetries /\ BackoffTimer(h)
  \/ /\ \E a \in Streams : att[a].phase \in InitPhases
     /\ \A a \in Streams : att[a].phase \in InitPhases \cup {"free", "over"}
     /\ Disconnect

SpecTorn == Init /\ [][NextTorn]_vars

\* Under SpecTorn: the stream of attempt a ended or errored before its grace
\* timer fired, or disconnect() has run since the attempt began its session
\* initialization (httpClient is set by every connectToMCPServer call and
\* cleared by disconnect() only).
TornDown(a) ==
  \/ att[a].stream \in {"ended", "errored"}
  \/ att[a].phase \in InitPhases /\ ~httpClient

\* the session initialization of attempt a returns and the grace timer
\* callback sets connected
SetsConnected(a) ==
  /\ att[a].phase \in InitPhases
  /\ att'[a].phase \in {"over", "free"}
  /\ connected'

\* C37: a connect attempt whose stream ended or errored before its grace
\* timer fired, or during whose session initialization disconnect() ran,
\* never afterwards sets connected to true.
C37_TornDownAttemptStaysDown ==
  [][\A a \in Streams : TornDown(a) => ~SetsConnected(a)]_vars

\* a backoff timer is pending: its callback starts with isReconnecting = false
BackoffPending == \E h \in Handles : timers[h].kind = "backoff"

\* C38: isReconnecting is true only while a backoff timer is pending whose
\* callback will reset it; no operation, cleanup() included, leaves it true
\* with no such timer, where every later scheduleReconnect returns at once.
C38_ReconnectingHasTimer == isReconnecting => BackoffPending

\* polls whose merge has run
MergedPolls == {id \in Ids : fetch[id] = "pollOk"}

\* Poll idA was issued before poll idB (request ids are allocated in issue
\* order), idB is the only poll merged so far, so that cache.filteredEntities
\* is its snapshot, and the reply of idA is merged in this step.
MergedAfterLaterPoll(idA, idB) ==
  /\ idA < idB
  /\ MergedPolls = {idB}
  /\ fetch[idA] = "poll" /\ fetch'[idA] = "pollOk"

\* C39: if poll A is issued before poll B and both succeed, then after both
\* merges every entity present in both snapshots has the state from B, also
\* when the reply of A arrives after the reply of B.
C39_LaterPollWins ==
  [][\A idA, idB \in Ids :
       MergedAfterLaterPoll(idA, idB) =>
         \A e \in Entities :
           (cache.filteredEntities[e] # Missing /\ cache'.filteredEntities[e] # Missing)
             => cache'.deviceCache[e].state = cache.filteredEntities[e].state]_vars

EntryTimesOrdered(e) ==
  cache.deviceCache[e] # NoEntry =>
    /\ cache.deviceCache[e].lastChanged <= cache.deviceCache[e].lastSeen
    /\ cache.totalPolls > 0 => cache.deviceCache[e].lastSeen <= cache.lastUpdate

\* the lastChanged stamp of an existing entry is replaced in this step
LastChangedChanges(e) ==
  /\ cache.deviceCache[e] # NoEntry /\ cache'.deviceCache[e] # NoEntry
  /\ cache'.deviceCache[e].lastChanged # cache.deviceCache[e].lastChanged

\* C40: every cache entry has lastChanged <= lastSeen and, once a poll has
\* succeeded, lastSeen <= lastUpdate; lastChanged of an entry changes only in
\* a poll in which the entity's state differs from the stored state.
C40_EntryTimestampsOrdered ==
  /\ [](\A e \in Entities : EntryTimesOrdered(e))
  /\ [][\A e \in Entities :
          LastChangedChanges(e) =>
            /\ PollSucceeds
            /\ cache'.filteredEntities[e] # Missing
            /\ cache'.filteredEntities[e].state # cache.deviceCache[e].state]_vars

\* after two polls at different times one entry was seen again unchanged, and
\* another changed its state in the second poll
C40_Witness ==
  /\ cache.totalPolls = 2
  /\ \E e1, e2 \in Entities :
       /\ e1 # e2
       /\ cache.deviceCache[e1] # NoEntry /\ cache.deviceCache[e2] # NoEntry
       /\ cache.deviceCache[e1].lastChanged < cache.deviceCache[e1].lastSeen
       /\ cache.deviceCache[e1].lastSeen = cache.lastUpdate
       /\ cache.deviceCache[e2].lastChanged = cache.deviceCache[e2].lastSeen
       /\ cache.deviceCache[e2].lastChanged = cache.lastUpdate
       /\ cache.filteredEntities[e1] # Missing /\ cache.filteredEntities[e2] # Missing

====
